---------------------------- MODULE Spec2Model ----------------------------
(* Slot-filling core of the WhatsApp lead-qualification bot:                *)
(*   src/ai_langchain.py    IntelligentSlotFiller,                          *)
(*                          IntelligentLeadQualificationChatbot             *)
(*   src/state_management.py MaquinariaType, FIELDS_CONFIG_PRIORITY         *)
(*                                                                          *)
(* Python values are encoded as strings.  A scalar is its text; the         *)
(* constants below stand for None, False and "key not in the dict".  The    *)
(* value of the key detalles_maquinaria is a record DictVal(items) or       *)
(* NonDict(raw): items maps every detail key to its value or to Absent.     *)
EXTENDS Integers, Sequences, FiniteSets, TLC

VARIABLES
    state,           \* IntelligentLeadQualificationChatbot.state (the working record)
    store,           \* the record the state store holds for the correspondent
    extracted_info,  \* the update map of the last merge
    extract_failed,  \* TRUE iff the extraction step of the last turn failed
    raised,          \* TRUE iff the last operation ended in its exception handler
    reply,           \* what the last send_message returned
    op,              \* the last operation run
    hp,              \* length of the scripted scenario followed so far, -1 once left
    now,             \* the clock, in minutes
    sent,            \* the texts the last handler gave to the WhatsApp transport
    inbound,         \* the webhook message the last handler was called with
    store_other,     \* the record the state store holds for a second correspondent
    alias,           \* which objects of the working record are objects of the stored one
    doc,             \* the Cosmos DB document of the correspondent
    current_user_id, \* IntelligentLeadQualificationChatbot.current_user_id
    crm,             \* HubSpotManager.contact_id, whether HubSpot holds that
                     \* contact, and what the last update_contact returned
    units            \* two message-processing units of one correspondent: the
                     \* step each has reached and its own working record

vars == <<state, store, extracted_info, extract_failed, raised, reply, op, hp,
          now, sent, inbound, store_other, alias, doc, current_user_id, crm, units>>

-----------------------------------------------------------------------------
(* Python values                                                            *)

None == "<None>"
PyFalse == "<False>"
PyTrue == "<True>"
Absent == "<absent>"
NO_TIENE == "No tiene"
NO_ESPECIFICADO == "No especificado"

\* bool(v) of a scalar
Truthy(v) == v \notin {None, "", PyFalse, Absent}

-----------------------------------------------------------------------------
(* state_management.py                                                      *)

MaquinariaType ==
    {"soldadora", "compresor", "torre_iluminacion", "plataforma", "generador",
     "rompedor", "apisonador", "montacargas", "manipulador"}

\* FIELDS_CONFIG_PRIORITY: the keys in their order, and the required flag
FIELDS_CONFIG_PRIORITY ==
    <<"nombre", "apellido", "tipo_maquinaria", "detalles_maquinaria",
      "nombre_empresa", "giro_empresa", "lugar_requerimiento",
      "uso_empresa_o_venta", "sitio_web", "correo", "telefono">>

RegistryRequired ==
    {"nombre", "apellido", "tipo_maquinaria", "nombre_empresa", "giro_empresa",
     "lugar_requerimiento", "uso_empresa_o_venta", "correo", "telefono"}

-----------------------------------------------------------------------------
(* ai_langchain.py: MAQUINARIA_CONFIG.  The key written MaquinariaType.LGMG *)
(* names no member of the enumeration of state_management.py; it is kept    *)
(* as the key "lgmg", which no machinery type of a record can equal.        *)

ConfigTypes ==
    {"soldadora", "compresor", "torre_iluminacion", "lgmg", "generador", "rompedor"}

\* the "fields" list of a configured type, as [name, required] in order
MAQUINARIA_CONFIG(tipo) ==
    CASE tipo = "soldadora" ->
            <<[name |-> "amperaje", required |-> TRUE],
              [name |-> "electrodo", required |-> TRUE]>>
      [] tipo = "compresor" ->
            <<[name |-> "capacidad_volumen", required |-> TRUE],
              [name |-> "herramientas_conectar", required |-> TRUE]>>
      [] tipo = "torre_iluminacion" ->
            <<[name |-> "es_led", required |-> TRUE]>>
      [] tipo = "lgmg" ->
            <<[name |-> "altura_trabajo", required |-> TRUE],
              [name |-> "actividad", required |-> TRUE],
              [name |-> "ubicacion", required |-> TRUE]>>
      [] tipo = "generador" ->
            <<[name |-> "actividad", required |-> TRUE],
              [name |-> "capacidad", required |-> TRUE]>>
      [] tipo = "rompedor" ->
            <<[name |-> "uso", required |-> TRUE],
              [name |-> "tipo", required |-> TRUE]>>

DetailKeys ==
    {"amperaje", "electrodo", "capacidad_volumen", "herramientas_conectar",
     "es_led", "altura_trabajo", "actividad", "ubicacion", "capacidad", "uso",
     "tipo"}

RECURSIVE RequiredNames(_)
RequiredNames(fields) ==
    IF fields = <<>> THEN <<>>
    ELSE (IF Head(fields).required THEN <<Head(fields).name>> ELSE <<>>)
         \o RequiredNames(Tail(fields))

get_required_fields_for_tipo(tipo) ==
    IF tipo \notin ConfigTypes THEN <<>> ELSE RequiredNames(MAQUINARIA_CONFIG(tipo))

-----------------------------------------------------------------------------
(* The record                                                               *)

EmptyItems == [k \in DetailKeys |-> Absent]
DictVal(items) == [isdict |-> TRUE, items |-> items, raw |-> None]
NonDict(raw) == [isdict |-> FALSE, items |-> EmptyItems, raw |-> raw]

\* bool(d) of a detalles_maquinaria value
TruthyDetalles(d) ==
    IF d.isdict THEN \E k \in DetailKeys : d.items[k] # Absent ELSE Truthy(d.raw)

\* d.get(k) of a dict
DictGet(d, k) == IF d.items[k] = Absent THEN None ELSE d.items[k]

ScalarKeys ==
    {"nombre", "apellido", "tipo_maquinaria", "sitio_web", "uso_empresa_o_venta",
     "nombre_completo", "nombre_empresa", "giro_empresa", "correo", "telefono",
     "lugar_requerimiento"}

\* _create_empty_state: the key apellido is not in the dict it returns
_create_empty_state ==
    [messages |-> <<>>,
     nombre |-> None,
     apellido |-> Absent,
     tipo_maquinaria |-> None,
     detalles_maquinaria |-> DictVal(EmptyItems),
     sitio_web |-> None,
     uso_empresa_o_venta |-> None,
     nombre_completo |-> None,
     nombre_empresa |-> None,
     giro_empresa |-> None,
     correo |-> None,
     telefono |-> None,
     completed |-> FALSE,
     lugar_requerimiento |-> None,
     conversation_mode |-> "bot",
     asignado_asesor |-> None,
     hubspot_contact_id |-> Absent]

\* st.get(key) for a scalar key
Get(st, key) == IF st[key] = Absent THEN None ELSE st[key]


-----------------------------------------------------------------------------
(* IntelligentLeadQualificationChatbot._update_state_with_extracted_info    *)
(* An update map is the sequence of its items in iteration order, each      *)
(* [key, value]; keys are distinct.  The value of detalles_maquinaria is a  *)
(* DictVal or a NonDict, every other value a scalar.                        *)

Done(st) == [st |-> st, raised |-> FALSE]
Raise(st) == [st |-> st, raised |-> TRUE]

\* step 1: value is None or value == ""
IsNullOrEmpty(key, value) ==
    IF key = "detalles_maquinaria"
    THEN ~value.isdict /\ value.raw \in {None, ""}
    ELSE value \in {None, ""}

\* step 2 with the guard left out: every field is overwritten
HasValidValue_never(current_value) == FALSE

\* step 2: current_value and current_value not in ["No especificado", "No tiene", None, ""]
HasValidValue(current_value) ==
    /\ Truthy(current_value)
    /\ current_value \notin {NO_ESPECIFICADO, NO_TIENE, None, ""}

\* current_detalles.update(value)
DictUpdate(current, value) ==
    [k \in DetailKeys |-> IF value[k] # Absent THEN value[k] ELSE current[k]]

\* step 3, first branch: key == "detalles_maquinaria" and isinstance(value, dict);
\* a current value that is no dict has no update method
MergeDetalles(st, value) ==
    IF st.detalles_maquinaria.isdict
    THEN Done([st EXCEPT !.detalles_maquinaria =
                            DictVal(DictUpdate(@.items, value.items))])
    ELSE Raise(st)

\* step 3, second branch, with the ValueError left to propagate
SetTipo_uncaught(st, value) ==
    IF value \in MaquinariaType
    THEN Done([st EXCEPT !.tipo_maquinaria = value])
    ELSE Raise(st)

\* step 3, second branch: MaquinariaType(value), ValueError caught and logged
SetTipo(st, value) ==
    IF value \in MaquinariaType
    THEN Done([st EXCEPT !.tipo_maquinaria = value])
    ELSE Done(st)

\* the loop body with the surname appended to the name on every apellido
\* item, as hubspot_manager.update_contact builds the contact's name
UpdateEntry_surname(st, e) ==
    IF IsNullOrEmpty(e.key, e.value) THEN Done(st)
    ELSE IF e.key \notin {"detalles_maquinaria", "apellido"}
              /\ HasValidValue(Get(st, e.key))
         THEN Done(st)
    ELSE IF e.key = "detalles_maquinaria" /\ e.value.isdict
         THEN MergeDetalles(st, e.value)
    ELSE IF e.key = "tipo_maquinaria" THEN SetTipo(st, e.value)
    ELSE IF e.key = "apellido" /\ Truthy(Get(st, "nombre"))
         THEN Done([st EXCEPT !.nombre = st.nombre \o " " \o e.value,
                              !.apellido = e.value])
    ELSE Done([st EXCEPT ![e.key] = e.value])

\* the body of the for loop for one item
UpdateEntry(st, e) ==
    IF IsNullOrEmpty(e.key, e.value) THEN Done(st)
    ELSE IF e.key = "completed"
         THEN \* the record holds this flag as a truth value
              IF st.completed THEN Done(st)
              ELSE Done([st EXCEPT !.completed = Truthy(e.value)])
    ELSE IF e.key # "detalles_maquinaria" /\ HasValidValue(Get(st, e.key))
         THEN Done(st)
    ELSE IF e.key = "detalles_maquinaria" /\ e.value.isdict
         THEN MergeDetalles(st, e.value)
    ELSE IF e.key = "tipo_maquinaria" THEN SetTipo(st, e.value)
    ELSE Done([st EXCEPT ![e.key] = e.value])

\* the for loop over extracted_info.items(); an exception leaves the loop
RECURSIVE _update_state_with_extracted_info(_, _)
_update_state_with_extracted_info(st, info) ==
    IF info = <<>> THEN Done(st)
    ELSE LET r == UpdateEntry(st, Head(info))
         IN  IF r.raised THEN r
             ELSE _update_state_with_extracted_info(r.st, Tail(info))

-----------------------------------------------------------------------------
(* IntelligentSlotFiller                                                    *)

\* value in ["No tiene", "No especificado"]
IsSentinel(value) == value \in {NO_TIENE, NO_ESPECIFICADO}

\* is_conversation_complete: the first required_fields list
CompleteRequiredFields ==
    <<"nombre", "tipo_maquinaria", "lugar_requerimiento", "nombre_empresa",
      "giro_empresa", "sitio_web", "uso_empresa_o_venta", "nombre_completo",
      "correo", "telefono">>

SeqToSet(s) == {s[i] : i \in DOMAIN s}

\* field in detalles and detalles[field] is not None and != "" and != "No especificado";
\* for a value that is no dict, `in` is a containment test that no field name passes
DetailAnswered(detalles, field) ==
    /\ detalles.isdict
    /\ detalles.items[field] # Absent
    /\ detalles.items[field] \notin {None, "", NO_ESPECIFICADO}

is_conversation_complete(st) ==
    /\ \A f \in SeqToSet(CompleteRequiredFields) :
            Truthy(Get(st, f)) /\ ~IsSentinel(Get(st, f))
    /\ Truthy(Get(st, "tipo_maquinaria"))
    /\ TruthyDetalles(st.detalles_maquinaria)
    /\ \A f \in SeqToSet(get_required_fields_for_tipo(st.tipo_maquinaria)) :
            DetailAnswered(st.detalles_maquinaria, f)

\* get_next_question: slot_priority
slot_priority ==
    <<"nombre", "tipo_maquinaria", "detalles_maquinaria", "lugar_requerimiento",
      "uso_empresa_o_venta", "nombre_empresa", "sitio_web", "giro_empresa",
      "nombre_completo", "correo", "telefono">>

NoQuestion == [question_type |-> None, field |-> None]
QuestionError == [question_type |-> "<raise>", field |-> None]

\* _get_maquinaria_detail_question_with_reason: the first field of the type's
\* configuration with `not detalles.get(name)`; NoQuestion stands for None,
\* QuestionError for the AttributeError of a detalles value without get
RECURSIVE FirstUnanswered(_, _)
FirstUnanswered(fields, detalles) ==
    IF fields = <<>> THEN NoQuestion
    ELSE IF ~Truthy(DictGet(detalles, Head(fields).name))
         THEN [question_type |-> "detalles_maquinaria", field |-> Head(fields).name]
         ELSE FirstUnanswered(Tail(fields), detalles)

_get_maquinaria_detail_question_with_reason(st) ==
    LET tipo == Get(st, "tipo_maquinaria")
    IN  IF ~Truthy(tipo) \/ tipo \notin ConfigTypes THEN NoQuestion
        ELSE IF ~st.detalles_maquinaria.isdict THEN QuestionError
        ELSE FirstUnanswered(MAQUINARIA_CONFIG(tipo), st.detalles_maquinaria)

\* the loop of get_next_question over slots[i..]
RECURSIVE NextFrom(_, _)
NextFrom(slots, st) ==
    IF slots = <<>> THEN NoQuestion
    ELSE IF Head(slots) = "detalles_maquinaria"
         THEN LET q == _get_maquinaria_detail_question_with_reason(st)
              IN  IF q = QuestionError THEN NoQuestion   \* except: return None
                  ELSE IF q # NoQuestion THEN q
                  ELSE NextFrom(Tail(slots), st)
    ELSE IF ~Truthy(Get(st, Head(slots))) \/ IsSentinel(Get(st, Head(slots)))
         THEN [question_type |-> Head(slots), field |-> Head(slots)]
    ELSE NextFrom(Tail(slots), st)

get_next_question(st) == NextFrom(slot_priority, st)

-----------------------------------------------------------------------------
(* Inputs: the update maps the extraction step hands to the merge           *)

E(key, value) == [key |-> key, value |-> value]
Items1(k, v) == [x \in DetailKeys |-> IF x = k THEN v ELSE Absent]
Items2(k1, v1, k2, v2) ==
    [x \in DetailKeys |-> IF x = k1 THEN v1 ELSE IF x = k2 THEN v2 ELSE Absent]
Det(items) == E("detalles_maquinaria", DictVal(items))

Updates ==
    { <<>>,
      <<E("nombre", "Juan"), E("apellido", "Perez")>>,
      <<E("nombre", "Pedro"), E("nombre_completo", "Pedro Diaz Ruiz")>>,
      <<E("tipo_maquinaria", "soldadora")>>,
      <<E("tipo_maquinaria", "torre_iluminacion")>>,
      <<E("tipo_maquinaria", "plataforma")>>,
      <<Det(Items1("amperaje", "200A"))>>,
      <<Det(Items2("amperaje", NO_ESPECIFICADO, "electrodo", "6013"))>>,
      <<Det(Items1("es_led", PyFalse))>>,
      <<E("detalles_maquinaria", NonDict(NO_ESPECIFICADO))>>,
      <<E("nombre_empresa", "Acme"), E("giro_empresa", "construccion"),
        E("lugar_requerimiento", "Monterrey"), E("uso_empresa_o_venta", "venta")>>,
      <<E("tipo_maquinaria", "soldadoras"), E("correo", "ana@acme.mx"),
        E("telefono", "5551234")>>,
      <<E("correo", "ana@acme.mx"), E("tipo_maquinaria", "lgmg"),
        E("telefono", "5551234")>>,
      <<E("sitio_web", NO_TIENE), E("telefono", None), E("correo", "")>>,
      <<E("sitio_web", "acme.mx")>> }

-----------------------------------------------------------------------------
(* Specification of the merge: any sequence of update maps from the empty   *)
(* record                                                                   *)

NoState == [absent |-> TRUE]
NoReply == ""
\* the allow-listed correspondent and one that is not
RECIPIENT_WAID == "5215550001"
OTHER_WAID == "5215550002"

\* HubSpotManager.__init__: no contact id yet
NoContact == [contact_id |-> None, exists |-> FALSE, updated |-> None]

NoInbound == [wa_id |-> "", kind |-> "", body |-> "", id |-> ""]
NoDoc == [absent |-> TRUE]

\* the working record and the stored one as Python objects: top, the two are
\* one dict; messages, detalles, their values under these keys are one object
Aliased(top, messages, detalles) ==
    [top |-> top, messages |-> messages, detalles |-> detalles]
NoAlias == Aliased(FALSE, FALSE, FALSE)

\* the two units, before either has loaded anything
Units == {1, 2}
NoUnits ==
    [u \in Units |-> [pc |-> "start", st |-> _create_empty_state, alone |-> TRUE]]

Init ==
    /\ state = _create_empty_state
    /\ store = NoState
    /\ extracted_info = <<>>
    /\ extract_failed = FALSE
    /\ raised = FALSE
    /\ reply = NoReply
    /\ op = "init"
    /\ hp = 0
    /\ now = 0
    /\ sent = <<>>
    /\ inbound = NoInbound
    /\ store_other = NoState
    /\ alias = NoAlias
    /\ doc = NoDoc
    /\ current_user_id = None
    /\ crm = NoContact
    /\ units = NoUnits

UpdateState(info) ==
    LET r == _update_state_with_extracted_info(state, info)
    IN  /\ state' = r.st
        /\ extracted_info' = info
        /\ raised' = r.raised
        /\ op' = "_update_state_with_extracted_info"
        /\ hp' = -1
        /\ UNCHANGED <<store, extract_failed, reply>>
        /\ UNCHANGED <<now, sent, inbound, store_other, alias, doc, current_user_id, crm, units>>

Next == \E info \in Updates : UpdateState(info)

Spec == Init /\ [][Next]_vars

-----------------------------------------------------------------------------
(* The scripted conversation: name, surname, welder, amperage, electrode,   *)
(* company name and sector, location, usage intent, email, phone, each      *)
(* message extracted as the fields it gives.  Any other merge leaves the    *)
(* script.                                                                  *)

HappyPath ==
    << <<E("nombre", "Juan")>>,
       <<E("apellido", "Perez")>>,
       <<E("tipo_maquinaria", "soldadora")>>,
       <<Det(Items1("amperaje", "200A"))>>,
       <<Det(Items1("electrodo", "6013"))>>,
       <<E("nombre_empresa", "Acme"), E("giro_empresa", "construccion")>>,
       <<E("lugar_requerimiento", "Monterrey")>>,
       <<E("uso_empresa_o_venta", "venta")>>,
       <<E("correo", "ana@acme.mx")>>,
       <<E("telefono", "5551234")>> >>

OffScript ==
    { <<E("sitio_web", "acme.mx")>>,
      <<E("sitio_web", NO_TIENE), E("telefono", None), E("correo", "")>>,
      <<E("nombre", "Pedro"), E("nombre_completo", "Pedro Diaz Ruiz")>>,
      <<E("tipo_maquinaria", "soldadoras"), E("correo", "ana@acme.mx"),
        E("telefono", "5551234")>> }

HappyStep ==
    /\ hp >= 0
    /\ hp < Len(HappyPath)
    /\ LET r == _update_state_with_extracted_info(state, HappyPath[hp + 1])
       IN  /\ state' = r.st
           /\ extracted_info' = HappyPath[hp + 1]
           /\ raised' = r.raised
           /\ op' = "_update_state_with_extracted_info"
           /\ hp' = hp + 1
           /\ UNCHANGED <<store, extract_failed, reply>>
           /\ UNCHANGED <<now, sent, inbound, store_other, alias, doc, current_user_id, crm, units>>

NextHappy == HappyStep \/ \E info \in OffScript : UpdateState(info)

SpecHappy == Init /\ [][NextHappy]_vars

-----------------------------------------------------------------------------
(* The turn: IntelligentLeadQualificationChatbot.send_message with a user   *)
(* id, over InMemoryStateStore                                              *)

MaxMessages == 5

ERROR_REPLY == "Disculpe, hubo un error tecnico."
FINAL_REPLY == "Perfecto! He registrado toda su informacion"
CLOSING_REPLY == "Gracias por toda la informacion. Estoy procesando su solicitud."
FALLBACK_REPLY == "En un momento le responderemos"
INVENTORY_REPLY == "Actualmente tenemos el siguiente inventario"

Message(role, content, sender) ==
    [role |-> role, content |-> content, timestamp |-> now, sender |-> sender]

\* load_conversation: the stored record if there is one, else an empty one.
\* InMemoryStateStore.get_conversation_state returns the stored dict itself.
Load(stored) == IF stored = NoState THEN _create_empty_state ELSE stored

\* extract_all_information without its try/except: a failure propagates
extract_uncaught(llm) ==
    IF llm.ok THEN [info |-> llm.result, raised |-> FALSE]
    ELSE [info |-> <<>>, raised |-> TRUE]

\* extract_all_information: the parsed answer of the model, {} on any failure
extract_all_information(llm) ==
    IF llm.ok THEN [info |-> llm.result, raised |-> FALSE]
    ELSE [info |-> <<>>, raised |-> FALSE]

\* the text of a question: the slot it asks for
QuestionText(q) ==
    IF q.question_type = "detalles_maquinaria"
    THEN "detalles_maquinaria " \o q.field \o "?"
    ELSE q.question_type \o "?"

\* _add_message_and_return_response, without the save
AddMessage(st, role, response) ==
    [st EXCEPT !.messages =
        Append(@, Message(role, response,
                          IF role = "assistant" THEN "bot" ELSE "lead"))]

\* an answer that fills every field of the record at once
AllFields(sitio_web) ==
    <<E("nombre", "Ana"), E("tipo_maquinaria", "soldadora"),
      Det(Items2("amperaje", "200A", "electrodo", "6013")),
      E("lugar_requerimiento", "Monterrey"), E("uso_empresa_o_venta", "venta"),
      E("nombre_empresa", "Acme"), E("sitio_web", sitio_web),
      E("giro_empresa", "construccion"), E("nombre_completo", "Ana Diaz"),
      E("correo", "ana@acme.mx"), E("telefono", "5551234")>>

\* the answers of the language model that one turn draws on
TurnUpdates ==
    { <<>>,
      <<E("nombre", "Juan"), E("apellido", "Perez")>>,
      <<E("nombre", "Pedro"), E("nombre_completo", "Pedro Diaz Ruiz")>>,
      <<E("tipo_maquinaria", "soldadora")>>,
      <<Det(Items1("amperaje", "200A"))>>,
      <<E("detalles_maquinaria", NonDict(NO_ESPECIFICADO))>>,
      <<E("tipo_maquinaria", "soldadoras"), E("correo", "ana@acme.mx"),
        E("telefono", "5551234")>>,
      <<E("correo", "ana@acme.mx"), Det(Items1("amperaje", "200A")),
        E("telefono", "5551234")>>,
      AllFields("acme.mx"),
      AllFields(NO_TIENE) }

LLMAnswers ==
    {[ok |-> FALSE, result |-> <<>>]}
    \cup {[ok |-> TRUE, result |-> u] : u \in TurnUpdates}

\* the outcome of one send_message call on the loaded record:
\* [st: the working record, saved: save_conversation ran, reply, info, failed, raised]
Outcome(st, saved, text, info, failed, exc) ==
    [st |-> st, saved |-> saved, reply |-> text, info |-> info,
     failed |-> failed, raised |-> exc]

\* the empty and the whitespace-only texts among the messages
BlankMessages == {"", "   ", " \n"}

\* a reading of the emptiness test that strips nothing
IsBlank_unstripped(user_message) == user_message = ""

\* not user_message or not user_message.strip()
IsBlank(user_message) == user_message \in BlankMessages

send_message(loaded, user_message, llm, is_inventory, generated) ==
    IF IsBlank(user_message)
    THEN Outcome(loaded, FALSE, NoReply, <<>>, FALSE, FALSE)
    ELSE
    LET st1 == AddMessage(loaded, "user", user_message)
        ex == extract_all_information(llm)
        failed == ~llm.ok
    IN  IF ex.raised
        THEN Outcome(st1, FALSE, ERROR_REPLY, <<>>, failed, TRUE)
        ELSE
        LET r == _update_state_with_extracted_info(st1, ex.info)
            st2 == r.st
            next_question == get_next_question(st2)
        IN  IF r.raised
            THEN Outcome(st2, FALSE, ERROR_REPLY, ex.info, failed, TRUE)
            ELSE IF st2.conversation_mode = "agente"
            THEN Outcome(st2, TRUE, NoReply, ex.info, failed, FALSE)
            ELSE IF is_inventory
            THEN LET text == IF next_question # NoQuestion
                             THEN INVENTORY_REPLY \o " " \o QuestionText(next_question)
                             ELSE INVENTORY_REPLY
                 IN  Outcome(AddMessage(st2, "assistant", text), TRUE, text,
                             ex.info, failed, FALSE)
            ELSE IF is_conversation_complete(st2)
            THEN Outcome(AddMessage([st2 EXCEPT !.completed = TRUE],
                                    "assistant", FINAL_REPLY),
                         TRUE, FINAL_REPLY, ex.info, failed, FALSE)
            ELSE IF next_question = NoQuestion
            THEN Outcome(AddMessage(st2, "assistant", CLOSING_REPLY), TRUE,
                         CLOSING_REPLY, ex.info, failed, FALSE)
            ELSE LET text == IF next_question.question_type = "detalles_maquinaria"
                                \/ generated
                             THEN QuestionText(next_question)
                             ELSE FALLBACK_REPLY
                 IN  Outcome(AddMessage(st2, "assistant", text), TRUE, text,
                             ex.info, failed, FALSE)

\* send_message(user_message, user_id): the effects of one call
TurnEffect(user_message, llm, is_inventory, generated) ==
    LET loaded == Load(store)
        out == send_message(loaded, user_message, llm, is_inventory, generated)
    IN  /\ state' = out.st
        \* the loaded record is the stored object: what the turn writes, the
        \* store holds, saved or not
        /\ store' = IF out.saved \/ store # NoState THEN out.st ELSE store
        /\ extracted_info' = out.info
        /\ extract_failed' = out.failed
        /\ raised' = out.raised
        /\ reply' = out.reply
        /\ op' = "send_message"
        /\ alias' = IF out.saved THEN Aliased(FALSE, TRUE, out.st.detalles_maquinaria.isdict)
                     ELSE IF store # NoState THEN Aliased(TRUE, TRUE, TRUE)
                     ELSE NoAlias
        /\ sent' = <<>>
        /\ current_user_id' = RECIPIENT_WAID
        /\ UNCHANGED <<hp, now, inbound, store_other, doc, crm, units>>

SendMessage(user_message, llm, is_inventory, generated) ==
    /\ Len(Load(store).messages) + 2 <= MaxMessages
    /\ TurnEffect(user_message, llm, is_inventory, generated)

\* function_app.process_agent_message: the conversation goes
\* to the human agent, and the agent's message to the lead
AgentMessage ==
    LET loaded == Load(store)
        st == [loaded EXCEPT !.conversation_mode = "agente",
                             !.messages = Append(@, Message("assistant",
                                                            "mensaje del agente",
                                                            "agente"))]
    IN  /\ Len(loaded.messages) + 1 <= MaxMessages
        /\ state' = st
        /\ store' = st
        /\ raised' = FALSE
        /\ op' = "process_agent_message"
        /\ alias' = Aliased(FALSE, TRUE, st.detalles_maquinaria.isdict)
        /\ sent' = <<"mensaje del agente">>
        /\ UNCHANGED <<extracted_info, extract_failed, reply, hp>>
        /\ current_user_id' = RECIPIENT_WAID
        /\ UNCHANGED <<now, inbound, store_other, doc, crm, units>>

NextTurn ==
    \/ \E m \in BlankMessages \cup {"hola"}, llm \in LLMAnswers,
          inv \in BOOLEAN, gen \in BOOLEAN :
          SendMessage(m, llm, inv, gen)
    \/ AgentMessage

SpecTurn == Init /\ [][NextTurn]_vars

-----------------------------------------------------------------------------
(* Properties of the merge, the checker and the selector                    *)

\* the update maps the properties below are evaluated on: the inputs above,
\* and every one-item map over the scalar keys and the detail keys
ProbeValues == {None, "", NO_TIENE, PyFalse, "otro"}
ProbeUpdates ==
    Updates
    \cup { <<E(k, v)>> : k \in ScalarKeys, v \in ProbeValues }
    \cup { <<E("tipo_maquinaria", v)>> : v \in {"compresor", "Soldadora"} }
    \cup { <<Det(Items1(k, v))>> : k \in {"amperaje", "es_led"},
                                   v \in {None, "", PyTrue, "otro"} }
    \cup { <<E("detalles_maquinaria", NonDict(v))>> : v \in {None, "otro"} }

Merged(st, info) == _update_state_with_extracted_info(st, info)

\* a value that is neither empty nor one of the two sentinels
IsRealValue(v) == Truthy(v) /\ v \notin {NO_TIENE, NO_ESPECIFICADO}

\* C1: the completion checker holds exactly when the selector has no further
\* question, in every record reachable by merges.
SelectorCheckerAgree ==
    is_conversation_complete(state) <=> (get_next_question(state) = NoQuestion)

\* C2 as stated: a scalar field that holds any non-empty value is left alone
\* by every merge.
NoClobberNonEmpty ==
    [][\A f \in ScalarKeys : Truthy(Get(state, f)) => state'[f] = state[f]]_vars

\* C2 amended: a scalar field that holds a non-empty value other than the
\* sentinels "No tiene" and "No especificado" is left alone by every merge.
NoClobberRealValue ==
    \A info \in ProbeUpdates :
        LET after == Merged(state, info).st
        IN  \A f \in ScalarKeys : IsRealValue(Get(state, f)) => after[f] = state[f]

\* the last merge carried another value for a field that held a real value
NoClobberWitness ==
    /\ op = "_update_state_with_extracted_info"
    /\ \E i \in DOMAIN extracted_info :
          /\ extracted_info[i].key \in ScalarKeys \ {"tipo_maquinaria"}
          /\ IsRealValue(extracted_info[i].value)
          /\ IsRealValue(Get(state, extracted_info[i].key))
          /\ state[extracted_info[i].key] # extracted_info[i].value

HasDictDetalles(info) ==
    \E i \in DOMAIN info :
        info[i].key = "detalles_maquinaria" /\ info[i].value.isdict

\* C3: when a detail sub-map is merged, every sub-key that already has a
\* non-empty value keeps it, and the sub-keys of the update that the record
\* lacks are added.  Stated for the values that are not a sentinel either:
\* the least the sentence asks for.
DetailSubkeysKept ==
    [][HasDictDetalles(extracted_info') /\ state.detalles_maquinaria.isdict =>
         \A k \in DetailKeys :
            LET old == state.detalles_maquinaria.items[k]
                new == state'.detalles_maquinaria.items[k]
            IN  /\ IsRealValue(old) => new = old
                /\ old = Absent =>
                     \E i \in DOMAIN extracted_info' :
                        /\ extracted_info'[i].key = "detalles_maquinaria"
                        /\ new = extracted_info'[i].value.items[k]]_vars

\* C4: merging an update map a second time changes nothing, for the map
\* last merged and for every map of the probe set in every reachable record.
MergeIdempotent ==
    /\ Merged(state, extracted_info).st = state
    /\ \A info \in ProbeUpdates :
          LET once == Merged(state, info).st
          IN  Merged(once, info).st = once

\* a merge that wrote a field and a detail sub-key has happened
MergeIdempotentWitness ==
    /\ op = "_update_state_with_extracted_info"
    /\ extracted_info # <<>>
    /\ state.apellido = "Perez"
    /\ state.nombre = "Juan"
    /\ state.sitio_web = "acme.mx"
    /\ state.detalles_maquinaria.items["amperaje"] = "200A"

HasInvalidTipo(info) ==
    \E i \in DOMAIN info :
        /\ info[i].key = "tipo_maquinaria"
        /\ ~IsNullOrEmpty("tipo_maquinaria", info[i].value)
        /\ info[i].value \notin MaquinariaType

\* the map without its machinery-type item
RECURSIVE WithoutTipo(_)
WithoutTipo(info) ==
    IF info = <<>> THEN <<>>
    ELSE (IF Head(info).key = "tipo_maquinaria" THEN <<>> ELSE <<Head(info)>>)
         \o WithoutTipo(Tail(info))

HasKey(info, key) == \E i \in DOMAIN info : info[i].key = key

\* an invalid machinery-type item put first or last in each input map that has
\* no machinery-type item of its own (the keys of a map are distinct)
InvalidTipoProbes ==
    LET base == {u \in Updates : ~HasKey(u, "tipo_maquinaria")}
        bad == {"lgmg", "Soldadora"}
    IN  { <<E("tipo_maquinaria", t)>> \o u : t \in bad, u \in base }
        \cup { u \o <<E("tipo_maquinaria", t)>> : t \in bad, u \in base }

\* C10: an update map with a machinery type outside the enumeration leaves the
\* machinery type as it was, raises nothing of its own, and has the effect of
\* the same map without that item, wherever the item stands in the map.
InvalidTipoIgnored ==
    \A info \in Updates \cup InvalidTipoProbes :
        HasInvalidTipo(info) =>
            LET with == Merged(state, info)
            IN  /\ with.st.tipo_maquinaria = state.tipo_maquinaria
                /\ with = Merged(state, WithoutTipo(info))

\* the last merge carried an invalid machinery type between two other items,
\* and both of them were written
InvalidTipoWitness ==
    /\ op = "_update_state_with_extracted_info"
    /\ ~raised
    /\ HasInvalidTipo(extracted_info)
    /\ Len(extracted_info) = 3
    /\ extracted_info[2].key = "tipo_maquinaria"
    /\ state[extracted_info[1].key] = extracted_info[1].value
    /\ state[extracted_info[3].key] = extracted_info[3].value
    /\ state.tipo_maquinaria = None

\* len(v.split()) >= 2 over the values of the model
HasTwoTokens(v) ==
    v \in {"Pedro Diaz Ruiz", "Juan Perez", NO_TIENE, NO_ESPECIFICADO}

\* completeness as the field registry states it: a name of two tokens, every
\* field the registry marks required, the type and a non-empty detail map,
\* and every required detail of the type answered
RegistryComplete(st) ==
    /\ HasTwoTokens(Get(st, "nombre"))
    /\ \A f \in RegistryRequired : Truthy(Get(st, f))
    /\ Truthy(Get(st, "tipo_maquinaria"))
    /\ TruthyDetalles(st.detalles_maquinaria)
    /\ \A f \in SeqToSet(get_required_fields_for_tipo(st.tipo_maquinaria)) :
            DetailAnswered(st.detalles_maquinaria, f)

\* C5: the completion checker holds exactly when the record is complete in
\* the registry's terms; the optional company website is not required.
CheckerMatchesRegistry ==
    is_conversation_complete(state) <=> RegistryComplete(state)

\* the question of the first empty field in the registry's order
RECURSIVE RegistryNextFrom(_, _)
RegistryNextFrom(fields, st) ==
    IF fields = <<>> THEN NoQuestion
    ELSE IF Head(fields) = "detalles_maquinaria"
         THEN LET tipo == Get(st, "tipo_maquinaria")
                  q == IF tipo \in ConfigTypes /\ st.detalles_maquinaria.isdict
                       THEN FirstUnanswered(MAQUINARIA_CONFIG(tipo),
                                            st.detalles_maquinaria)
                       ELSE NoQuestion
              IN  IF q # NoQuestion THEN q ELSE RegistryNextFrom(Tail(fields), st)
    ELSE IF ~Truthy(Get(st, Head(fields)))
         THEN [question_type |-> Head(fields), field |-> Head(fields)]
    ELSE RegistryNextFrom(Tail(fields), st)

\* C6: the selector returns the question of the first empty field in the
\* order of the field registry, the detail slot standing for the first
\* unanswered required detail of the current machinery type.
SelectorFollowsRegistry ==
    get_next_question(state) = RegistryNextFrom(FIELDS_CONFIG_PRIORITY, state)

\* C7: after the scripted conversation the record is complete and the
\* selector has no further question.
HappyPathCompletes ==
    hp = Len(HappyPath) =>
        is_conversation_complete(state) /\ get_next_question(state) = NoQuestion

-----------------------------------------------------------------------------
(* Properties of the turn                                                   *)

LeadKeys == ScalarKeys \cup {"detalles_maquinaria"}
LeadFields(st) == [k \in LeadKeys |-> st[k]]

\* C8: the extraction step never returns a scalar field that the record it
\* was given already holds a non-empty value for.
ExtractionConservative ==
    [][op' = "send_message" =>
         \A i \in DOMAIN extracted_info' :
            extracted_info'[i].key # "detalles_maquinaria" =>
               ~Truthy(Get(Load(store), extracted_info'[i].key))]_vars

\* C9 as stated: a failed extraction yields the empty map and no exception,
\* the turn changes no lead field, and the turn produces a reply.
FailedExtractionStillReplies ==
    [][op' = "send_message" /\ extract_failed' =>
         /\ extracted_info' = <<>>
         /\ ~raised'
         /\ LeadFields(state') = LeadFields(Load(store))
         /\ LeadFields(Load(store')) = LeadFields(Load(store))
         /\ reply' # NoReply]_vars

\* C9 amended: a failed extraction yields the empty map and no exception, the
\* turn changes no lead field, and in bot mode the turn produces a reply; in
\* human-agent mode it returns the empty reply, as every turn of that mode.
FailedExtractionHarmless ==
    [][op' = "send_message" /\ extract_failed' =>
         /\ extracted_info' = <<>>
         /\ ~raised'
         /\ LeadFields(state') = LeadFields(Load(store))
         /\ LeadFields(Load(store')) = LeadFields(Load(store))
         /\ (state'.conversation_mode = "bot" => reply' # NoReply)
         /\ (state'.conversation_mode = "agente" => reply' = NoReply)]_vars

\* a bot-mode turn whose extraction failed, on a record that holds fields,
\* asked its question
FailedExtractionWitness ==
    /\ op = "send_message"
    /\ extract_failed
    /\ state.conversation_mode = "bot"
    /\ state.nombre = "Juan"
    /\ reply = "tipo_maquinaria?"

-----------------------------------------------------------------------------
(* The surname                                                              *)

\* C11: a surname merged into a record that has a first name and no surname
\* makes the name "{first name} {surname}" and is stored in its own field;
\* with no first name it is written like any other field.
SurnameJoinsName ==
    [][\A i \in DOMAIN extracted_info' :
          LET e == extracted_info'[i]
          IN  (/\ e.key = "apellido"
               /\ IsRealValue(e.value)
               /\ ~Truthy(Get(state, "apellido"))) =>
                  /\ state'.apellido = e.value
                  /\ Truthy(Get(state, "nombre")) =>
                        state'.nombre = state.nombre \o " " \o e.value]_vars

-----------------------------------------------------------------------------
(* The webhook: function_app.process_whatsapp_message, with                 *)
(* check_agent_timeout and process_agent_message, over InMemoryStateStore   *)

MaxNow == 31
AGENT_TIMEOUT_MINUTES == 30


HELP_TEXT == "Solo puedo procesar mensajes de texto."
TECHNICAL_ERROR == "Disculpa, hubo un problema tecnico."

\* WhatsAppBot.is_authorized_user: the ids of the environment, of which
\* RECIPIENT_WAID is set
is_authorized_user_any(wa_id) == TRUE

is_authorized_user(wa_id) == wa_id \in {RECIPIENT_WAID}

\* the record the store holds under an id; the store outlives the request
\* (create_state_store builds a new InMemoryStateStore per request only as
\* the fallback for a missing Cosmos DB configuration)
StoreOf(wa_id) == IF wa_id = RECIPIENT_WAID THEN store ELSE store_other

\* the timestamp of the last entry whose sender is the agent
RECURSIVE LastAgentMessage(_)
LastAgentMessage(messages) ==
    IF messages = <<>> THEN [found |-> FALSE, at |-> 0]
    ELSE IF messages[Len(messages)].sender = "agente"
         THEN [found |-> TRUE, at |-> messages[Len(messages)].timestamp]
    ELSE LastAgentMessage(SubSeq(messages, 1, Len(messages) - 1))

\* check_agent_timeout with the threshold taken as 30 hours
check_agent_timeout_hours(stored, t) ==
    LET st == Load(stored)
        last == LastAgentMessage(st.messages)
    IN  IF st.conversation_mode # "agente"
        THEN [changed |-> FALSE, stored |-> stored]
        ELSE IF ~last.found \/ t - last.at > AGENT_TIMEOUT_MINUTES * 60
        THEN [changed |-> TRUE, stored |-> [st EXCEPT !.conversation_mode = "bot"]]
        ELSE [changed |-> FALSE, stored |-> stored]

\* check_agent_timeout at time t on the stored record: whether the mode went
\* back to bot, and the record the store holds afterwards
check_agent_timeout(stored, t) ==
    LET st == Load(stored)
        last == LastAgentMessage(st.messages)
    IN  IF st.conversation_mode # "agente"
        THEN [changed |-> FALSE, stored |-> stored]
        ELSE IF ~last.found \/ t - last.at > AGENT_TIMEOUT_MINUTES
        THEN [changed |-> TRUE, stored |-> [st EXCEPT !.conversation_mode = "bot"]]
        ELSE [changed |-> FALSE, stored |-> stored]

\* what a handler leaves: the record stored under the id, the working
\* record, the texts given to the transport, and the turn's outcome
Handled(stored, st, texts, out) ==
    [stored |-> stored, st |-> st, sent |-> texts, out |-> out]

NoTurn == Outcome(_create_empty_state, FALSE, NoReply, <<>>, FALSE, FALSE)

\* WhatsAppBot.process_message(wa_id, message_body) -> response, as
\* process_whatsapp_message calls it: the chatbot's turn for that id
process_message_response(loaded, body, llm, is_inventory, generated) ==
    send_message(loaded, body, llm, is_inventory, generated)

\* the record stored after a chatbot turn on the record it loaded
StoredAfter(stored, out) ==
    IF out.saved \/ stored # NoState THEN out.st ELSE stored

process_whatsapp_message(stored, wa_id, kind, body, llm, is_inventory, generated, pm_ok, t) ==
    IF ~is_authorized_user(wa_id)
    THEN Handled(stored, _create_empty_state, <<>>, NoTurn)
    ELSE IF kind = "text"
    THEN LET checked == check_agent_timeout(stored, t).stored
             loaded == Load(checked)
         IN  IF loaded.conversation_mode = "agente"
             THEN LET out == send_message(loaded, body, llm, is_inventory, generated)
                  IN  Handled(StoredAfter(checked, out), out.st, <<>>, out)
             ELSE IF pm_ok
             THEN LET out == process_message_response(loaded, body, llm,
                                                      is_inventory, generated)
                  IN  Handled(StoredAfter(checked, out), out.st, <<out.reply>>, out)
             ELSE Handled(checked, loaded, <<TECHNICAL_ERROR>>,
                          Outcome(loaded, FALSE, NoReply, <<>>, FALSE, TRUE))
    ELSE Handled(stored, _create_empty_state, <<HELP_TEXT>>, NoTurn)

ProcessWhatsappMessage(wa_id, kind, body, llm, is_inventory, generated, pm_ok) ==
    LET h == process_whatsapp_message(StoreOf(wa_id), wa_id, kind, body, llm,
                                      is_inventory, generated, pm_ok, now)
    IN  /\ Len(Load(StoreOf(wa_id)).messages) + 2 <= MaxMessages
        /\ inbound' = [wa_id |-> wa_id, kind |-> kind, body |-> body, id |-> ""]
        /\ current_user_id' = IF is_authorized_user(wa_id) /\ kind = "text"
                               THEN wa_id ELSE current_user_id
        /\ state' = h.st
        /\ store' = IF wa_id = RECIPIENT_WAID THEN h.stored ELSE store
        /\ store_other' = IF wa_id = RECIPIENT_WAID THEN store_other ELSE h.stored
        /\ sent' = h.sent
        /\ extracted_info' = h.out.info
        /\ extract_failed' = h.out.failed
        /\ raised' = h.out.raised
        /\ reply' = h.out.reply
        /\ op' = "process_whatsapp_message"
        /\ alias' = IF h.out.saved THEN Aliased(FALSE, TRUE, h.st.detalles_maquinaria.isdict)
                    ELSE IF h.stored # NoState /\ h.stored = h.st THEN Aliased(TRUE, TRUE, TRUE)
                    ELSE NoAlias
        /\ UNCHANGED <<hp, now, doc, crm, units>>

\* time passes
Tick ==
    \E d \in {30, 31} :
        /\ now + d <= MaxNow
        /\ now' = now + d
        /\ op' = "tick"
        /\ UNCHANGED <<state, store, extracted_info, extract_failed, raised,
                       reply, hp, sent, inbound, store_other, alias, doc,
                       current_user_id, crm, units>>

WebhookUpdates ==
    { <<>>,
      <<E("nombre", "Juan"), E("apellido", "Perez")>>,
      <<E("detalles_maquinaria", NonDict(NO_ESPECIFICADO))>>,
      <<E("correo", "ana@acme.mx"), Det(Items1("amperaje", "200A")),
        E("telefono", "5551234")>> }

WebhookAnswers ==
    {[ok |-> FALSE, result |-> <<>>]}
    \cup {[ok |-> TRUE, result |-> u] : u \in WebhookUpdates}

NoAnswer == [ok |-> TRUE, result |-> <<>>]

\* the body of a WhatsApp text message is not blank
NextWebhook ==
    \/ \E llm \in WebhookAnswers, inv \in BOOLEAN :
          ProcessWhatsappMessage(RECIPIENT_WAID, "text", "hola", llm, inv, TRUE, TRUE)
    \/ ProcessWhatsappMessage(RECIPIENT_WAID, "text", "hola", NoAnswer, FALSE, TRUE, FALSE)
    \/ ProcessWhatsappMessage(RECIPIENT_WAID, "image", "", NoAnswer, FALSE, TRUE, TRUE)
    \/ \E kind \in {"text", "image"} :
          ProcessWhatsappMessage(OTHER_WAID, kind, "hola", NoAnswer, FALSE, TRUE, TRUE)
    \/ AgentMessage
    \/ Tick

SpecWebhook == Init /\ [][NextWebhook]_vars

-----------------------------------------------------------------------------
(* Properties of the webhook                                                *)

\* the stored record of the lead is in human-agent mode and the last agent
\* entry is at most 30 minutes old / the mode has timed out
AgentModeHolds ==
    /\ Load(store).conversation_mode = "agente"
    /\ LastAgentMessage(Load(store).messages).found
    /\ now - LastAgentMessage(Load(store).messages).at <= AGENT_TIMEOUT_MINUTES

AgentModeTimedOut ==
    /\ Load(store).conversation_mode = "agente"
    /\ \/ ~LastAgentMessage(Load(store).messages).found
       \/ now - LastAgentMessage(Load(store).messages).at > AGENT_TIMEOUT_MINUTES

InboundOfLead ==
    op' = "process_whatsapp_message" /\ inbound'.wa_id = RECIPIENT_WAID

\* the entries the step appended to the stored log
Appended == SubSeq(Load(store').messages, Len(Load(store).messages) + 1,
                   Len(Load(store').messages))

\* C12: in human-agent mode, before the timeout, an inbound message of any
\* kind gets no automated message and no bot-authored log entry; a text
\* message is logged, extracted and merged, and the record is persisted.
AgentModeSilent ==
    [][InboundOfLead /\ AgentModeHolds =>
         /\ sent' = <<>>
         /\ \A i \in DOMAIN Appended : Appended[i].sender # "bot"
         /\ inbound'.kind = "text" =>
               /\ Appended = <<Message("user", inbound'.body, "lead")>>
               /\ LeadFields(store') =
                     LeadFields(Merged(Load(store), extracted_info').st)
               /\ store' = state']_vars

ModeTwoStateMachine ==
    [][/\ (Load(store).conversation_mode = "bot"
             /\ Load(store').conversation_mode = "agente")
            => op' = "process_agent_message"
       /\ (Load(store).conversation_mode = "agente"
             /\ Load(store').conversation_mode = "bot")
            => InboundOfLead /\ inbound'.kind = "text" /\ AgentModeTimedOut
       /\ \A v \in {"bot", "agente", "otro"} :
             /\ Merged(state, <<E("conversation_mode", v)>>).st.conversation_mode
                  = state.conversation_mode
             /\ Merged(Load(store), <<E("nombre", "Ana"), E("conversation_mode", v)>>).st.conversation_mode
                  = Load(store).conversation_mode]_vars

\* the mode went to the agent and came back by the timeout, and a merge ran
\* in between
ModeTwoStateWitness ==
    /\ op = "process_whatsapp_message"
    /\ store # NoState
    /\ store.conversation_mode = "bot"
    /\ LastAgentMessage(store.messages).found
    /\ extracted_info # <<>>
    /\ store.nombre = "Juan"

\* C16: a message from an id that is not on the allow-list causes no
\* transport send and no write of the state store, for that id or another.
UnauthorizedIgnored ==
    [][op' = "process_whatsapp_message" /\ inbound'.wa_id # RECIPIENT_WAID =>
         /\ sent' = <<>>
         /\ store' = store
         /\ store_other' = store_other
         /\ store_other' = NoState]_vars

\* an unauthorized text message arrived while the store held a record
UnauthorizedWitness ==
    /\ op = "process_whatsapp_message"
    /\ inbound.wa_id = OTHER_WAID
    /\ inbound.kind = "text"
    /\ store # NoState
    /\ Len(store.messages) >= 2
    /\ sent = <<>>

-----------------------------------------------------------------------------
(* Exceptions and the stored record                                         *)

\* the update map applied entry by entry to the end, an entry that cannot be
\* applied left out
RECURSIVE WholeMerge(_, _)
WholeMerge(st, info) ==
    IF info = <<>> THEN st
    ELSE WholeMerge(UpdateEntry(st, Head(info)).st, Tail(info))

\* C17: when an exception escapes a step of the turn, the caller gets the one
\* generic error message and the record the state store shows afterwards
\* holds the whole merge of the turn's update map or none of it.
ErrorLeavesWholeOrNone ==
    [][op' = "send_message" /\ raised' =>
         /\ reply' = ERROR_REPLY
         /\ LeadFields(Load(store')) \in
               { LeadFields(Load(store)),
                 LeadFields(WholeMerge(Load(store), extracted_info')) }]_vars

-----------------------------------------------------------------------------
(* A session over InMemoryStateStore: load, mutate, save                    *)

Session(o) ==
    /\ op' = o
    /\ UNCHANGED <<extracted_info, extract_failed, raised, reply, hp, now,
                   sent, inbound, store_other, doc, crm, units>>

\* load_conversation: self.state is the dict the store returns, or a new
\* empty record when the store has none
LoadConversation ==
    /\ state' = IF store # NoState THEN store ELSE _create_empty_state
    /\ alias' = IF store # NoState THEN Aliased(TRUE, TRUE, TRUE) ELSE NoAlias
    /\ store' = store
    /\ current_user_id' = RECIPIENT_WAID
    /\ Session("load_conversation")

\* save_conversation: the store keeps state.copy(), a new dict whose
\* messages list and detail dict are the working copy's own
SaveConversation ==
    /\ store' = state
    /\ alias' = Aliased(FALSE, TRUE, state.detalles_maquinaria.isdict)
    /\ state' = state
    /\ current_user_id' = current_user_id
    /\ Session("save_conversation")

\* self.state[key] = value
WriteField(key, value) ==
    /\ state' = [state EXCEPT ![key] = value]
    /\ store' = IF alias.top THEN [store EXCEPT ![key] = value] ELSE store
    /\ alias' = alias
    /\ current_user_id' = current_user_id
    /\ Session("write_field")

\* self.state["messages"].append(...)
AppendMessage(content) ==
    /\ Len(state.messages) + 1 <= MaxMessages
    /\ state' = [state EXCEPT !.messages = Append(@, Message("user", content, "lead"))]
    /\ store' = IF alias.messages
                THEN [store EXCEPT !.messages = Append(@, Message("user", content, "lead"))]
                ELSE store
    /\ alias' = alias
    /\ current_user_id' = current_user_id
    /\ Session("append_message")

\* current_detalles.update({key: value})
AddDetail(key, value) ==
    /\ state.detalles_maquinaria.isdict
    /\ state' = [state EXCEPT !.detalles_maquinaria =
                    DictVal(DictUpdate(@.items, Items1(key, value)))]
    /\ store' = IF alias.detalles
                THEN [store EXCEPT !.detalles_maquinaria =
                         DictVal(DictUpdate(@.items, Items1(key, value)))]
                ELSE store
    /\ alias' = alias
    /\ current_user_id' = current_user_id
    /\ Session("add_detail")

NextSession ==
    \/ LoadConversation
    \/ SaveConversation
    \/ \E v \in {"Juan", "Ana"} : WriteField("nombre", v)
    \/ \E v \in {"ana@acme.mx"} : WriteField("correo", v)
    \/ AppendMessage("hola")
    \/ \E v \in {"200A", "300A"} : AddDetail("amperaje", v)

SpecSession == Init /\ [][NextSession]_vars

\* C18: mutating the working copy (a field write, an append to its log, a new
\* detail sub-key) leaves what the store returns for the id as it was, before
\* the save as after it.
WorkingCopyIsolated ==
    [][op' \in {"write_field", "append_message", "add_detail"} =>
          store' = store]_vars

-----------------------------------------------------------------------------
(* CosmosDBStateStore                                                       *)
(* A document is [state, messages, conversation_mode, asignado_asesor,     *)
(* hubspot_contact_id]; a path of /state that the document lacks holds     *)
(* Absent.  The document's id, lead_id, canal, created_at, updated_at and  *)
(* the messages' id, question_type, delivered and read are left out.       *)

\* the keys of state.copy() once messages, conversation_mode,
\* asignado_asesor and hubspot_contact_id are popped
DocStateKeys == ScalarKeys \cup {"detalles_maquinaria", "completed"}

\* MaquinariaType.value, the JSON string of a member, and MaquinariaType(v)
MaquinariaValue(member) == "json:" \o member
MaquinariaMember(value) ==
    IF \E m \in MaquinariaType : value = MaquinariaValue(m)
    THEN CHOOSE m \in MaquinariaType : value = MaquinariaValue(m)
    ELSE None

\* one entry of messages_formatted / formatted_messages
FormatMessage(msg) ==
    [whatsapp_message_id |-> "", sender |-> msg.sender, text |-> msg.content,
     timestamp |-> msg.timestamp]

FormatMessages(messages) ==
    [i \in DOMAIN messages |-> FormatMessage(messages[i])]

_conversation_state_to_cosmos(st) ==
    [state |-> [k \in DocStateKeys |->
                   IF k = "tipo_maquinaria" /\ Truthy(st[k])
                   THEN MaquinariaValue(st[k]) ELSE st[k]],
     messages |-> FormatMessages(st.messages),
     conversation_mode |-> st.conversation_mode,
     asignado_asesor |-> Get(st, "asignado_asesor"),
     hubspot_contact_id |-> Get(st, "hubspot_contact_id")]

\* state.get(key) on the document's state
DocGet(d, key) == IF d.state[key] = Absent THEN None ELSE d.state[key]

_cosmos_to_conversation_state(d) ==
    [messages |-> [i \in DOMAIN d.messages |->
                      [role |-> IF d.messages[i].sender = "lead"
                                THEN "user" ELSE "assistant",
                       content |-> d.messages[i].text,
                       timestamp |-> d.messages[i].timestamp,
                       sender |-> d.messages[i].sender]],
     nombre |-> DocGet(d, "nombre"),
     apellido |-> DocGet(d, "apellido"),
     tipo_maquinaria |-> IF Truthy(DocGet(d, "tipo_maquinaria"))
                         THEN MaquinariaMember(d.state.tipo_maquinaria)
                         ELSE DocGet(d, "tipo_maquinaria"),
     detalles_maquinaria |-> d.state.detalles_maquinaria,
     sitio_web |-> DocGet(d, "sitio_web"),
     uso_empresa_o_venta |-> DocGet(d, "uso_empresa_o_venta"),
     nombre_completo |-> Absent,
     nombre_empresa |-> DocGet(d, "nombre_empresa"),
     giro_empresa |-> DocGet(d, "giro_empresa"),
     correo |-> DocGet(d, "correo"),
     telefono |-> DocGet(d, "telefono"),
     completed |-> d.state.completed,
     lugar_requerimiento |-> DocGet(d, "lugar_requerimiento"),
     conversation_mode |-> d.conversation_mode,
     asignado_asesor |-> d.asignado_asesor,
     hubspot_contact_id |-> d.hubspot_contact_id]

get_conversation_state(d) ==
    IF d = NoDoc THEN NoState ELSE _cosmos_to_conversation_state(d)

_has_new_messages(old_state, new_state) ==
    Len(new_state.messages) > Len(old_state.messages)

\* a save that appends no message
_get_new_message_none(new_state) == <<>>

\* new_messages[-1:]
_get_new_message(new_state) ==
    IF new_state.messages = <<>> THEN <<>>
    ELSE <<new_state.messages[Len(new_state.messages)]>>

fields_to_check ==
    {"nombre", "apellido", "tipo_maquinaria", "detalles_maquinaria", "sitio_web",
     "uso_empresa_o_venta", "nombre_empresa", "giro_empresa", "correo",
     "telefono", "completed", "lugar_requerimiento", "asignado_asesor"}

\* old_value != new_value for one monitored field
FieldChanged(old_state, new_state, field) ==
    IF field \in {"detalles_maquinaria", "completed"}
    THEN old_state[field] # new_state[field]
    ELSE Get(old_state, field) # Get(new_state, field)

_detect_field_changes(old_state, new_state) ==
    {field \in fields_to_check : FieldChanged(old_state, new_state, field)}

\* the patch operation add /messages/- for each message
_append_messages(d, formatted) == [d EXCEPT !.messages = @ \o formatted]

\* replace needs its path: /state/<field> is in the document
PathExists(d, field) ==
    /\ field \in DocStateKeys
    /\ field \in ScalarKeys => d.state[field] # Absent

\* the value _patch_fields writes for a field
PatchValue(new_state, field) ==
    IF field \in {"detalles_maquinaria", "completed"} THEN new_state[field]
    ELSE IF field = "tipo_maquinaria" /\ Truthy(new_state[field])
    THEN MaquinariaValue(new_state[field])
    ELSE Get(new_state, field)

\* one patch_item call: every replace applies or the call fails
_patch_fields(d, new_state, changes) ==
    IF \A field \in changes : PathExists(d, field)
    THEN [ok |-> TRUE,
          doc |-> [d EXCEPT !.state =
                      [k \in DocStateKeys |->
                          IF k \in changes THEN PatchValue(new_state, k) ELSE @[k]]]]
    ELSE [ok |-> FALSE, doc |-> d]

_update_conversation_mode(d, new_mode) == [d EXCEPT !.conversation_mode = new_mode]

\* save_conversation_state: a new document, or the granular path with the
\* full upsert as its fallback
save_conversation_state(d, st) ==
    IF d = NoDoc THEN _conversation_state_to_cosmos(st)
    ELSE
    LET old_state == _cosmos_to_conversation_state(d)
        d1 == IF _has_new_messages(old_state, st)
              THEN _append_messages(d, FormatMessages(_get_new_message(st)))
              ELSE d
        field_changes == _detect_field_changes(old_state, st)
        patched == _patch_fields(d1, st, field_changes)
    IN  IF ~patched.ok THEN _conversation_state_to_cosmos(st)
        ELSE IF old_state.conversation_mode # st.conversation_mode
        THEN _update_conversation_mode(patched.doc, st.conversation_mode)
        ELSE patched.doc

\* add_single_message: a new document when the chatbot's record has no
\* message, then the patch; the patch of a missing document fails
add_single_message(d, content, whatsapp_message_id, chatbot_state) ==
    LET d1 == IF chatbot_state.messages = <<>>
              THEN _conversation_state_to_cosmos(chatbot_state) ELSE d
    IN  IF d1 = NoDoc THEN [raised |-> TRUE, doc |-> d1]
        ELSE [raised |-> FALSE,
              doc |-> _append_messages(d1,
                         <<[whatsapp_message_id |-> whatsapp_message_id,
                            sender |-> "lead", text |-> content,
                            timestamp |-> now]>>)]

-----------------------------------------------------------------------------
(* WhatsAppBot.process_message over the Cosmos DB store                     *)

RESET_REPLY == "Conversacion reiniciada. Puedes comenzar de nuevo."
STATUS_REPLY == "ESTADO DE CONVERSACION"
SAFETY_REPLY == "No me queda claro lo que dices."
BOT_REPLY == "respuesta del bot"

\* IntelligentLeadQualificationChatbot.send_message(message_text,
\* whatsapp_message_id, hubspot_manager): what the call may do with the
\* document, the transport and the caller
chatbot_send_message(d, callee) ==
    IF callee = "reply"
    THEN [doc |-> _append_messages(d, <<[whatsapp_message_id |-> "",
                                        sender |-> "bot", text |-> BOT_REPLY,
                                        timestamp |-> now]>>),
          sent |-> <<BOT_REPLY>>, raised |-> FALSE]
    ELSE [doc |-> d, sent |-> <<>>, raised |-> callee = "raise"]

\* _save_safety_messages: save the loaded conversation, then append the two
\* entries; an exception is logged and dropped
_save_safety_messages(d, st, user, safety_message, whatsapp_message_id) ==
    LET d1 == IF user # None THEN save_conversation_state(d, st) ELSE d
    IN  IF d1 = NoDoc THEN d1
        ELSE _append_messages(d1,
                <<[whatsapp_message_id |-> whatsapp_message_id, sender |-> "lead",
                   text |-> safety_message, timestamp |-> now],
                  [whatsapp_message_id |-> "", sender |-> "bot",
                   text |-> SAFETY_REPLY, timestamp |-> now]>>)

\* a gate that stops nothing
check_message_safety_none(message_text) == "safe"

\* ContentSafetyGuardrails.check_message_safety: the verdict on a text
check_message_safety(message_text) ==
    IF message_text = "insulto" THEN "unsafe"
    ELSE IF message_text = "fuera de tema" THEN "invalid_conversation"
    ELSE "safe"

\* reset_conversation with the stored session kept
reset_conversation_kept(d) == d

\* reset_conversation: delete_conversation_state of the loaded user
reset_conversation(d) == NoDoc

\* HubSpotManager.delete_contact: the contact is gone when HubSpot answers 204
delete_contact(c, status) ==
    IF status = 204 THEN [c EXCEPT !.exists = FALSE] ELSE c

\* the effects of one call: [doc, st, user, sent, raised]
Processed(d, st, user, texts, exc) ==
    [doc |-> d, st |-> st, user |-> user, sent |-> texts, raised |-> exc]

process_message(d, st, user, message_text, whatsapp_message_id, callee) ==
    LET safety == check_message_safety(message_text) IN
    IF message_text = "reset"
    THEN Processed(reset_conversation(d), _create_empty_state, RECIPIENT_WAID,
                   <<RESET_REPLY>>, FALSE)
    ELSE IF message_text = "status"
    THEN Processed(d, Load(get_conversation_state(d)), RECIPIENT_WAID,
                   <<STATUS_REPLY>>, FALSE)
    ELSE IF safety = "unsafe"
    THEN Processed(_save_safety_messages(d, st, user, "mensaje inseguro",
                                         whatsapp_message_id),
                   st, user, <<SAFETY_REPLY>>, FALSE)
    ELSE
    LET text == IF safety = "invalid_conversation"
                THEN "(FD) " \o message_text ELSE message_text
        added == add_single_message(d, text, whatsapp_message_id, st)
        turn == chatbot_send_message(added.doc, callee)
    IN  IF added.raised
        THEN Processed(added.doc, st, user, <<TECHNICAL_ERROR>>, TRUE)
        ELSE IF turn.raised
        THEN Processed(turn.doc, st, user, turn.sent \o <<TECHNICAL_ERROR>>, TRUE)
        ELSE Processed(turn.doc, st, user, turn.sent, FALSE)

\* the longest log of the Cosmos DB sessions
MaxLog == 3

DocLen == IF doc = NoDoc THEN 0 ELSE Len(doc.messages)

Cosmos(o) ==
    /\ op' = o
    /\ UNCHANGED <<store, store_other, alias, extracted_info, extract_failed,
                   reply, hp, now>>

\* the status HubSpot answers a request on the manager's contact with
HubSpotStatus(c, status) == IF c.exists THEN status ELSE 404

ProcessMessage(message_text, whatsapp_message_id, callee, status) ==
    LET p == process_message(doc, state, current_user_id, message_text,
                             whatsapp_message_id, callee)
    IN  /\ DocLen + 2 <= MaxLog
        /\ crm' = IF message_text = "reset"
                  THEN delete_contact(crm, HubSpotStatus(crm, status)) ELSE crm
        /\ inbound' = [wa_id |-> RECIPIENT_WAID, kind |-> "text",
                       body |-> message_text, id |-> whatsapp_message_id]
        /\ doc' = p.doc
        /\ state' = p.st
        /\ current_user_id' = p.user
        /\ sent' = p.sent
        /\ raised' = p.raised
        /\ UNCHANGED units
        /\ Cosmos("process_message")

\* load_conversation over the Cosmos DB store
CosmosLoad ==
    /\ state' = Load(get_conversation_state(doc))
    /\ current_user_id' = RECIPIENT_WAID
    /\ raised' = FALSE
    /\ UNCHANGED <<doc, sent, inbound, crm, units>>
    /\ Cosmos("load_conversation")

\* state_store.save_conversation_state(user_id, self.state)
CosmosSave ==
    /\ doc' = save_conversation_state(doc, state)
    /\ raised' = FALSE
    /\ UNCHANGED <<state, current_user_id, sent, inbound, crm, units>>
    /\ Cosmos("save_conversation_state")

\* self.state[key] = value
CosmosWrite(key, value) ==
    /\ state[key] # value
    /\ state' = [state EXCEPT ![key] = value]
    /\ raised' = FALSE
    /\ UNCHANGED <<doc, current_user_id, sent, inbound, crm, units>>
    /\ Cosmos("write_field")

\* self.state["messages"].append(...)
CosmosAppend(role, sender) ==
    /\ Len(state.messages) + 1 <= MaxLog
    /\ state' = [state EXCEPT !.messages = Append(@, Message(role, "hola", sender))]
    /\ raised' = FALSE
    /\ UNCHANGED <<doc, current_user_id, sent, inbound, crm, units>>
    /\ Cosmos("append_message")

\* HubSpotManager.create_contact: the manager keeps the id HubSpot returns
CreateContact(status) ==
    /\ ~crm.exists
    /\ crm' = IF status = 201
              THEN [crm EXCEPT !.contact_id = "hs-1", !.exists = TRUE]
              ELSE [crm EXCEPT !.contact_id = None, !.exists = FALSE]
    /\ raised' = FALSE
    /\ UNCHANGED <<state, doc, current_user_id, sent, inbound, units>>
    /\ Cosmos("create_contact")

NextCosmos ==
    \/ CosmosLoad
    \/ CosmosSave
    \/ CosmosWrite("tipo_maquinaria", "soldadora")
    \/ CosmosWrite("hubspot_contact_id", "hs-1")
    \/ CosmosWrite("asignado_asesor", "asesor-1")
    \/ CosmosWrite("conversation_mode", "agente")
    \/ CosmosAppend("assistant", "bot")
    \/ \E callee \in {"silent", "reply", "raise"} :
          ProcessMessage("hola", "wamid.1", callee, 204)
    \/ ProcessMessage("insulto", "wamid.2", "reply", 204)
    \/ ProcessMessage("fuera de tema", "wamid.3", "reply", 204)
    \/ \E text \in {"reset", "status"} : ProcessMessage(text, "wamid.4", "silent", 204)

SpecCosmos == Init /\ [][NextCosmos]_vars

-----------------------------------------------------------------------------
(* Properties of the Cosmos DB store                                        *)

\* the fields a saved record must come back with
RoundTripKeys ==
    ScalarKeys \cup {"asignado_asesor", "hubspot_contact_id"}

\* C19: save(id, R) followed by get(id) returns R's value for every lead
\* field, the completed flag, the mode, the assigned agent and the CRM
\* contact, the machinery type as the same enum member, whatever document
\* was stored before.
SaveGetRoundTrip ==
    [][op' = "save_conversation_state" =>
         LET got == get_conversation_state(doc')
         IN  /\ \A k \in RoundTripKeys : Get(got, k) = Get(state, k)
             /\ got.detalles_maquinaria = state.detalles_maquinaria
             /\ got.completed = state.completed
             /\ got.conversation_mode = state.conversation_mode]_vars

IsPrefix(a, b) == Len(a) <= Len(b) /\ SubSeq(b, 1, Len(a)) = a

\* C20: when the saved record's log extends the stored one, by one entry or
\* by more, the granular save leaves the document with the log a full
\* overwrite with the saved record would leave.
GranularLogEqualsFull ==
    [][(/\ op' = "save_conversation_state"
        /\ doc # NoDoc
        /\ IsPrefix(get_conversation_state(doc).messages, state.messages)) =>
          get_conversation_state(doc').messages
            = get_conversation_state(_conversation_state_to_cosmos(state)).messages]_vars

\* the external ids of the last n entries of a log
LastIds(messages, n) ==
    {messages[i].whatsapp_message_id :
        i \in {j \in DOMAIN messages : j > Len(messages) - n}}

\* the entries of a log that carry an external id
WithId(messages, id) ==
    {i \in DOMAIN messages : messages[i].whatsapp_message_id = id}

\* C15: a message whose external id is the id of one of the last 3 log
\* entries is not logged again: the second delivery adds no entry for it.
DuplicateDropped ==
    [][(/\ op' = "process_message"
        /\ doc # NoDoc
        /\ inbound'.id \in LastIds(doc.messages, 3)) =>
          /\ doc' # NoDoc
          /\ Cardinality(WithId(doc'.messages, inbound'.id))
               <= Cardinality(WithId(doc.messages, inbound'.id))]_vars

\* C21: a save of a working copy whose log extends the stored log leaves
\* every stored entry in place and unaltered, its external id included: the
\* stored log before the save is a prefix of the stored log after it.
SavedLogAppendOnly ==
    [][(/\ op' = "save_conversation_state"
        /\ doc # NoDoc
        /\ IsPrefix(get_conversation_state(doc).messages, state.messages)) =>
          /\ doc' # NoDoc
          /\ IsPrefix(doc.messages, doc'.messages)]_vars

\* a lead's conversation with contact creation and the reset command
NextReset ==
    \/ \E status \in {201, 500} : CreateContact(status)
    \/ \E callee \in {"silent", "reply"} :
          ProcessMessage("hola", "wamid.1", callee, 204)
    \/ \E status \in {204, 500} : ProcessMessage("reset", "wamid.4", "silent", status)
    \/ CosmosLoad
    \/ CosmosSave
    \/ \E value \in {"soldadora", "torre"} : CosmosWrite("tipo_maquinaria", value)
    \/ CosmosWrite("conversation_mode", "agente")
    \/ CosmosAppend("assistant", "bot")

SpecReset == Init /\ [][NextReset]_vars


\* a step that handles the reset command
ResetStep == op' = "process_message" /\ inbound'.body = "reset"

\* the session is deleted, the working copy is empty and in bot mode, the
\* command is neither extracted from nor logged, and only the reset text is sent
ResetClearsSession ==
    /\ doc' = NoDoc
    /\ get_conversation_state(doc') = NoState
    /\ state' = _create_empty_state
    /\ Load(get_conversation_state(doc')).conversation_mode = "bot"
    /\ Load(get_conversation_state(doc')).messages = <<>>
    /\ extracted_info' = extracted_info
    /\ sent' = <<RESET_REPLY>>

BotTurn ==
    /\ op' = "send_message"
    /\ ~raised'
    /\ reply' # NoReply
    /\ state'.conversation_mode = "bot"

\* C23: in bot mode, a turn whose merged record satisfies the completion
\* checker sets the completed flag, persists the record and returns the
\* completion message, whatever the inventory classifier answers.
CompleteTurnCompletes ==
    [][(BotTurn /\ is_conversation_complete(state')) =>
         /\ state'.completed = TRUE
         /\ store' = state'
         /\ reply' = FINAL_REPLY]_vars

\* a completed turn
CompleteTurnReached ==
    /\ op = "send_message" /\ ~raised
    /\ is_conversation_complete(state) /\ state.completed = TRUE
    /\ reply = FINAL_REPLY

\* C24: in bot mode, a turn whose merged record fails the completion checker
\* while the selector has no question left still sets the completed flag,
\* persists the record and returns the closing message (turns answered with
\* the catalogue set aside).
ExhaustedTurnCompletes ==
    [][(/\ BotTurn
        /\ reply' # INVENTORY_REPLY
        /\ ~is_conversation_complete(state')
        /\ get_next_question(state') = NoQuestion) =>
         /\ state'.completed = TRUE
         /\ store' = state'
         /\ reply' = CLOSING_REPLY]_vars

\* the closing message was returned for a record the checker rejects
ExhaustedTurnReached ==
    /\ op = "send_message" /\ ~raised /\ reply = CLOSING_REPLY
    /\ ~is_conversation_complete(state)
    /\ get_next_question(state) = NoQuestion

\* every required field and detail but the website is filled: the record
\* would be complete with a real website in the field
FilledButWebsite(st) == is_conversation_complete([st EXCEPT !.sitio_web = "acme.mx"])

\* C27: a record whose sitio_web holds "No tiene", every other required field
\* and detail being filled, is complete, and the selector does not ask the
\* website question again.
SentinelWebsiteCompletes ==
    (state.sitio_web = NO_TIENE /\ FilledButWebsite(state)) =>
        /\ is_conversation_complete(state)
        /\ get_next_question(state).question_type # "sitio_web"

\* the record of a session: the lead fields, the completed flag and the mode
Record(st) ==
    [fields |-> LeadFields(st), completed |-> st.completed,
     conversation_mode |-> st.conversation_mode]

\* the reply of a bot-mode turn on an inventory question: the catalogue, then
\* the selector's question for the merged record when there is one
CatalogueThenQuestion(out) ==
    (~out.raised /\ out.reply # NoReply) =>
        out.reply = IF get_next_question(out.st) # NoQuestion
                    THEN INVENTORY_REPLY \o " " \o QuestionText(get_next_question(out.st))
                    ELSE INVENTORY_REPLY

\* C26: for the message and extraction of any turn taken, the record after
\* the turn is the same whether the inventory classifier answers true or
\* false, and with the answer true the reply is the catalogue followed by the
\* selector's question for the merged record.
InventoryFlagLeavesRecord ==
    [][op' = "send_message" =>
         \A m \in {"", "hola"}, llm \in LLMAnswers, gen \in BOOLEAN :
            LET yes == send_message(Load(store), m, llm, TRUE, gen)
                no  == send_message(Load(store), m, llm, FALSE, gen)
            IN  state' \in {yes.st, no.st} =>
                    /\ Record(yes.st) = Record(no.st)
                    /\ CatalogueThenQuestion(yes)]_vars

\* C26, the part that holds: the lead fields and the mode after the turn are
\* the same for both answers of the classifier
InventoryFlagLeavesFields ==
    [][op' = "send_message" =>
         \A m \in {"", "hola"}, llm \in LLMAnswers, gen \in BOOLEAN :
            LET yes == send_message(Load(store), m, llm, TRUE, gen)
                no  == send_message(Load(store), m, llm, FALSE, gen)
            IN  state' \in {yes.st, no.st} =>
                    /\ LeadFields(yes.st) = LeadFields(no.st)
                    /\ yes.st.conversation_mode = no.st.conversation_mode
                    /\ CatalogueThenQuestion(yes)]_vars

\* C29: a bot-mode turn whose reply-composition call fails while a question
\* is pending returns a reply that contains that question.
FailedReplyStillAsks ==
    [][op' = "send_message" =>
         \A llm \in LLMAnswers :
            LET out == send_message(Load(store), "hola", llm, FALSE, FALSE)
                next_question == get_next_question(out.st)
            IN  (/\ state' = out.st /\ reply' = out.reply
                 /\ ~out.raised
                 /\ out.st.conversation_mode = "bot"
                 /\ ~is_conversation_complete(out.st)
                 /\ next_question # NoQuestion
                 /\ next_question.question_type # "detalles_maquinaria") =>
                    reply' = QuestionText(next_question)]_vars

-----------------------------------------------------------------------------
(* The last question of the bot: _get_last_bot_question over the log        *)

\* the longest log of the sessions below
MaxHistory == 3

\* the contents the log entries below carry: one line without a question
\* mark, one question, and a question between two other lines
PLAIN == "En un momento le responderemos"
QUESTION == "Cual es su nombre?"
MULTILINE == "Perfecto.\n  Cual es su correo?  \nGracias"
Contents == {PLAIN, QUESTION, MULTILINE}

\* content.split('\n')
Split(content) ==
    IF content = MULTILINE THEN <<"Perfecto.", "  Cual es su correo?  ", "Gracias">>
    ELSE <<content>>

\* "?" in line
HasQuestionMark(line) == line \in {QUESTION, "  Cual es su correo?  "}

\* line.strip()
Strip(line) == IF line = "  Cual es su correo?  " THEN "Cual es su correo?" ELSE line

\* "?" in content
ContentHasQuestionMark(content) ==
    \E i \in DOMAIN Split(content) : HasQuestionMark(Split(content)[i])

\* for line in reversed(lines): if "?" in line and line.strip(): return line.strip()
RECURSIVE LastQuestionLine(_, _)
LastQuestionLine(lines, content) ==
    IF lines = <<>> THEN content
    ELSE IF HasQuestionMark(lines[Len(lines)]) /\ Strip(lines[Len(lines)]) # ""
         THEN Strip(lines[Len(lines)])
    ELSE LastQuestionLine(SubSeq(lines, 1, Len(lines) - 1), content)

\* the search of the claim: backward past the assistant entries without "?"
RECURSIVE LastAssistantQuestion(_)
LastAssistantQuestion(messages) ==
    IF messages = <<>> THEN None
    ELSE LET msg == messages[Len(messages)]
         IN  IF msg.role = "assistant" /\ ContentHasQuestionMark(msg.content)
             THEN LastQuestionLine(Split(msg.content), msg.content)
             ELSE LastAssistantQuestion(SubSeq(messages, 1, Len(messages) - 1))

RECURSIVE _get_last_bot_question(_)
_get_last_bot_question(messages) ==
    IF messages = <<>> THEN None
    ELSE LET msg == messages[Len(messages)]
         IN  IF msg.role = "assistant"
             THEN IF ContentHasQuestionMark(msg.content)
                  THEN LastQuestionLine(Split(msg.content), msg.content)
                  ELSE msg.content
             ELSE _get_last_bot_question(SubSeq(messages, 1, Len(messages) - 1))

\* self.state["messages"].append(...) with one of the contents
LogMessage(role, content) ==
    /\ Len(state.messages) < MaxHistory
    /\ state' = AddMessage(state, role, content)
    /\ op' = "append_message"
    /\ UNCHANGED <<store, extracted_info, extract_failed, raised, reply, hp, now,
                   sent, inbound, store_other, alias, doc, current_user_id, crm, units>>

\* last_bot_question = self._get_last_bot_question()
GetLastBotQuestion ==
    /\ reply' = _get_last_bot_question(state.messages)
    /\ op' = "_get_last_bot_question"
    /\ UNCHANGED <<state, store, extracted_info, extract_failed, raised, hp, now,
                   sent, inbound, store_other, alias, doc, current_user_id, crm, units>>

NextQuestion ==
    \/ \E role \in {"user", "assistant"}, content \in Contents : LogMessage(role, content)
    \/ GetLastBotQuestion

SpecQuestion == Init /\ [][NextQuestion]_vars

LastBotQuestionReached ==
    /\ op = "_get_last_bot_question"
    /\ reply = "Cual es su correo?"
    /\ Len(state.messages) = MaxHistory

\* the positions of the assistant entries of a log
AssistantEntries(messages) == {i \in DOMAIN messages : messages[i].role = "assistant"}

\* the greatest element of a non-empty set of numbers
Greatest(S) == CHOOSE i \in S : \A j \in S : j <= i

\* the last line of a content that contains "?", stripped
StrippedQuestionOf(content) ==
    LET lines == Split(content)
        q == Greatest({i \in DOMAIN lines : HasQuestionMark(lines[i])})
    IN  Strip(lines[q])

-----------------------------------------------------------------------------
(* Properties of the content-safety gate                                    *)

\* a step of process_message on a text
GateStep(text) == op' = "process_message" /\ inbound'.body = text

\* the lead entries of a stored log that carry a text
LoggedFromLead(d, text) ==
    IF d = NoDoc THEN {}
    ELSE {i \in DOMAIN d.messages :
            d.messages[i].sender = "lead" /\ d.messages[i].text = text}

\* the working record is the stored one, as load_conversation left it
InSync == doc # NoDoc /\ state = Load(get_conversation_state(doc))

\* C25: a message with no verdict ("hola") or the verdict invalid_conversation
\* ("fuera de tema") goes to the log and the turn, tagged in the latter case,
\* and is never answered with the clarification reply; for any other verdict
\* ("insulto") the turn is not run: the working record and the extraction
\* are untouched, the stored lead fields of a session in sync stay as they
\* were, and the clarification reply alone is sent.
SafetyGateRoutes ==
    [][/\ GateStep("hola") /\ ~raised' =>
            /\ LoggedFromLead(doc', "hola") # {}
            /\ sent' \in {<<>>, <<BOT_REPLY>>}
       /\ GateStep("fuera de tema") /\ ~raised' =>
            /\ LoggedFromLead(doc', "(FD) fuera de tema") # {}
            /\ LoggedFromLead(doc', "fuera de tema") = {}
            /\ sent' \in {<<>>, <<BOT_REPLY>>}
       /\ (GateStep("hola") \/ GateStep("fuera de tema")) /\ raised' =>
            /\ Len(sent') > 0
            /\ sent'[Len(sent')] = TECHNICAL_ERROR
            /\ \A i \in DOMAIN sent' : sent'[i] # SAFETY_REPLY
       /\ GateStep("insulto") =>
            /\ state' = state
            /\ extracted_info' = extracted_info
            /\ ~raised'
            /\ sent' = <<SAFETY_REPLY>>
            /\ LoggedFromLead(doc', "insulto") = {}
            /\ InSync => doc'.state = doc.state]_vars

\* a stopped message was answered with the clarification reply and logged
\* with it as the two safety entries
SafetyGateStopped ==
    /\ op = "process_message" /\ inbound.body = "insulto"
    /\ sent = <<SAFETY_REPLY>>
    /\ LoggedFromLead(doc, "mensaje inseguro") # {}
    /\ doc.state.tipo_maquinaria = MaquinariaValue("soldadora")
    /\ LeadFields(state) = LeadFields(Load(get_conversation_state(doc)))

\* a suspect message went to the turn tagged, and the bot replied
SafetyGateTagged ==
    /\ op = "process_message" /\ inbound.body = "fuera de tema"
    /\ sent = <<BOT_REPLY>>
    /\ LoggedFromLead(doc, "(FD) fuera de tema") # {}

-----------------------------------------------------------------------------
(* HubSpotManager.update_contact and the turn that calls it                 *)

\* value + " Prueba Bot": a value that is no str raises TypeError
IsStr(value) == value \notin {None, PyFalse, PyTrue, Absent}

\* the keys of an update map
KeysOf(info) == {info[i].key : i \in DOMAIN info}

\* extracted_info[key]
ValueOf(info, key) == info[CHOOSE i \in DOMAIN info : info[i].key = key].value

\* the body of update_contact's loop for one item: the properties it builds
\* are left out, the exceptions and the update of the record's details kept
SyncEntry(st, e, info) ==
    IF e.key \notin {"detalles_maquinaria", "apellido"}
          /\ HasValidValue(Get(st, e.key))
    THEN Done(st)
    ELSE IF e.key = "nombre"
         THEN IF IsStr(e.value) THEN Done(st) ELSE Raise(st)
    ELSE IF e.key = "apellido"
         THEN IF Truthy(Get(st, "nombre")) /\ Truthy(e.value) THEN Done(st)
              ELSE IF /\ "nombre" \in KeysOf(info)
                      /\ IsStr(ValueOf(info, "nombre"))
                      /\ IsStr(e.value)
                   THEN Done(st)
              ELSE Raise(st)
    ELSE IF e.key = "tipo_maquinaria"
         THEN IF e.value \in MaquinariaType THEN Done(st) ELSE Raise(st)
    ELSE IF e.key = "detalles_maquinaria" /\ e.value.isdict
         THEN MergeDetalles(st, e.value)
    ELSE Done(st)

\* the for loop of update_contact over extracted_info.items()
RECURSIVE SyncLoop(_, _, _)
SyncLoop(st, rest, info) ==
    IF rest = <<>> THEN Done(st)
    ELSE LET r == SyncEntry(st, Head(rest), info)
         IN  IF r.raised THEN r ELSE SyncLoop(r.st, Tail(rest), info)

\* _update_contact: the contact id when HubSpot answers 200; status 0 is a
\* request that raises
_update_contact(c, status) ==
    IF status = 0 THEN [result |-> None, raised |-> TRUE]
    ELSE [result |-> IF status = 200 THEN c.contact_id ELSE None, raised |-> FALSE]

\* the result of update_contact: [st, result, raised]
Synced(st, result, exc) == [st |-> st, result |-> result, raised |-> exc]

\* update_contact without its try/except
update_contact_uncaught(st, info, c, status) ==
    IF info = <<>> THEN Synced(st, None, FALSE)
    ELSE LET loop == SyncLoop(st, info, info)
             patch == _update_contact(c, status)
         IN  IF loop.raised THEN Synced(loop.st, None, TRUE)
             ELSE Synced(loop.st, patch.result, patch.raised)

\* update_contact: every exception is logged and None returned
update_contact(st, info, c, status) ==
    IF info = <<>> THEN Synced(st, None, FALSE)
    ELSE LET loop == SyncLoop(st, info, info)
             patch == _update_contact(c, status)
         IN  IF loop.raised \/ patch.raised THEN Synced(loop.st, None, FALSE)
             ELSE Synced(loop.st, patch.result, FALSE)

\* the statuses HubSpot answers an update with: 0 is a request that raises
UpdateStatuses == {200, 500, 0}

\* the turn with the CRM sync after the extraction: an exception of the sync
\* would end the turn in send_message's except branch
send_message_synced(loaded, user_message, llm, is_inventory, generated, c, status) ==
    LET ex == extract_all_information(llm)
        sync == update_contact(AddMessage(loaded, "user", user_message), ex.info,
                               c, HubSpotStatus(c, status))
        turn == send_message([loaded EXCEPT !.detalles_maquinaria =
                                               sync.st.detalles_maquinaria],
                             user_message, llm, is_inventory, generated)
    IN  IF IsBlank(user_message) \/ ex.raised
        THEN [turn |-> send_message(loaded, user_message, llm, is_inventory, generated),
              updated |-> c.updated]
        ELSE IF sync.raised
        THEN [turn |-> Outcome(sync.st, FALSE, ERROR_REPLY, ex.info, ~llm.ok, TRUE),
              updated |-> c.updated]
        ELSE [turn |-> turn, updated |-> sync.result]

SyncedSendMessage(user_message, llm, is_inventory, generated, status) ==
    LET loaded == Load(store)
        synced == send_message_synced(loaded, user_message, llm, is_inventory,
                                      generated, crm, status)
        out == synced.turn
    IN  /\ Len(loaded.messages) + 2 <= MaxMessages
        /\ state' = out.st
        /\ store' = IF out.saved \/ store # NoState THEN out.st ELSE store
        /\ extracted_info' = out.info
        /\ extract_failed' = out.failed
        /\ raised' = out.raised
        /\ reply' = out.reply
        /\ op' = "send_message_synced"
        /\ alias' = IF out.saved THEN Aliased(FALSE, TRUE, out.st.detalles_maquinaria.isdict)
                     ELSE IF store # NoState THEN Aliased(TRUE, TRUE, TRUE)
                     ELSE NoAlias
        /\ sent' = <<>>
        /\ current_user_id' = RECIPIENT_WAID
        /\ crm' = [crm EXCEPT !.updated = synced.updated]
        /\ UNCHANGED <<hp, now, inbound, store_other, doc, units>>

\* the answers of the language model the synced turns draw on: no answer,
\* nothing extracted, a name with its surname, a surname alone, a machinery
\* type HubSpot's product table lacks, details, and details that are no dict
SyncAnswers ==
    {[ok |-> FALSE, result |-> <<>>]}
    \cup {[ok |-> TRUE, result |-> u] :
            u \in { <<>>,
                    <<E("nombre", "Juan"), E("apellido", "Perez")>>,
                    <<E("apellido", "Perez")>>,
                    <<E("tipo_maquinaria", "soldadoras"), E("correo", "ana@acme.mx"),
                      E("telefono", "5551234")>>,
                    <<Det(Items1("amperaje", "200A"))>>,
                    <<E("detalles_maquinaria", NonDict(NO_ESPECIFICADO))>> }}

NextSync ==
    \/ \E status \in {201, 500} : CreateContact(status)
    \/ \E llm \in SyncAnswers, inv \in BOOLEAN, status \in UpdateStatuses :
          SyncedSendMessage("hola", llm, inv, TRUE, status)
    \/ AgentMessage

SpecSync == Init /\ [][NextSync]_vars

\* C30: for the stored record of any session, any update map and any answer
\* of HubSpot, update_contact raises nothing and returns null on a failure,
\* and the turn replies and persists exactly as the turn without the sync
\* does on the same inputs.
SyncBestEffort ==
    \A llm \in SyncAnswers, inv \in BOOLEAN, status \in UpdateStatuses :
        LET loaded == Load(store)
            info == extract_all_information(llm).info
            st1 == AddMessage(loaded, "user", "hola")
            sync == update_contact(st1, info, crm, HubSpotStatus(crm, status))
            synced == send_message_synced(loaded, "hola", llm, inv, TRUE, crm, status)
        IN  /\ ~sync.raised
            /\ (\/ SyncLoop(st1, info, info).raised
                \/ HubSpotStatus(crm, status) # 200) => sync.result = None
            /\ synced.turn = send_message(loaded, "hola", llm, inv, TRUE)

\* a turn whose sync failed on an unknown machinery type while HubSpot holds
\* the contact: null was returned, the turn replied and the record is stored
SyncFailedTurnReached ==
    /\ op = "send_message_synced" /\ ~raised
    /\ crm.exists /\ crm.updated = None
    /\ \E i \in DOMAIN extracted_info :
          /\ extracted_info[i].key = "tipo_maquinaria"
          /\ extracted_info[i].value \notin MaquinariaType
    /\ reply \notin {NoReply, ERROR_REPLY}
    /\ store = state

-----------------------------------------------------------------------------
(* The answered conversation: every message of the lead answers the         *)
(* question the selector has pending, and the extraction attributes the     *)
(* answer to that field                                                     *)

\* the most turns of an answered conversation
MaxTurns == 16

\* the valid answers to a question, as the update maps the extraction returns
AnswerTo(q) ==
    IF q.question_type = "detalles_maquinaria"
    THEN {<<Det(Items1(q.field, v))>> :
            v \in IF q.field = "es_led" THEN {PyTrue, PyFalse} ELSE {"valor"}}
    ELSE IF q.question_type = "tipo_maquinaria"
    THEN {<<E("tipo_maquinaria", t)>> : t \in MaquinariaType}
    ELSE {<<E(q.field, "respuesta")>>}

AnswerTurn ==
    LET q == get_next_question(Load(store)) IN
    /\ q # NoQuestion
    /\ Len(Load(store).messages) + 2 <= 2 * MaxTurns
    /\ \E info \in AnswerTo(q) :
          TurnEffect("respuesta", [ok |-> TRUE, result |-> info], FALSE, TRUE)

NextAnswer == AnswerTurn

SpecAnswer == Init /\ [][NextAnswer]_vars

\* the combined question of the claim: company name and sector in one text
COMPANY_AND_SECTOR == "nombre_empresa y giro_empresa?"

\* the selector's pending field is the company name and the sector is empty
CompanyPending(st) ==
    /\ get_next_question(st).question_type = "nombre_empresa"
    /\ ~Truthy(Get(st, "giro_empresa"))

\* C31: when the selector's pending field is the company name and the sector
\* is empty too, the question asked is the combined one; an update that
\* carries the company name alone fills the name and leaves the sector empty.
CombinedCompanyQuestion ==
    [][op' = "send_message" =>
         /\ CompanyPending(state') => reply' = COMPANY_AND_SECTOR
         /\ (/\ CompanyPending(state)
             /\ extracted_info' = <<E("nombre_empresa", "respuesta")>>) =>
                /\ state'.nombre_empresa = "respuesta"
                /\ ~Truthy(Get(state', "giro_empresa"))]_vars

\* C31, the part that holds: the company name alone is filled and the sector
\* stays empty
CompanyNameAloneFilled ==
    [][(/\ op' = "send_message"
        /\ CompanyPending(state)
        /\ extracted_info' = <<E("nombre_empresa", "respuesta")>>) =>
            /\ state'.nombre_empresa = "respuesta"
            /\ ~Truthy(Get(state', "giro_empresa"))]_vars

\* C33: when every message answers the question last asked with a valid
\* value, the question asked after a turn is never the one just answered, and
\* a turn after which no question is left completes the conversation, for
\* every machinery type.
AnsweredTurnsProgress ==
    [][op' = "send_message" =>
         LET asked == get_next_question(Load(store))
             next  == get_next_question(state')
         IN  /\ next # asked
             /\ next = NoQuestion => state'.completed]_vars

\* C33, the part that holds: an answered question of a scalar field is never
\* asked again
ScalarAnswerNotAskedAgain ==
    [][op' = "send_message" =>
         LET asked == get_next_question(Load(store))
             next  == get_next_question(state')
         IN  asked.question_type # "detalles_maquinaria" => next # asked]_vars

-----------------------------------------------------------------------------
(* Further properties of the merge                                          *)

\* the non-empty values an update map carries for a field
CarriedFor(info, f) ==
    {info[i].value : i \in {j \in DOMAIN info :
                               info[j].key = f /\ ~IsNullOrEmpty(f, info[j].value)}}

\* C32: in every reachable record and for every update map, a scalar field
\* that holds a sentinel takes the non-empty value the map carries for it,
\* and a field that holds a real value does not come to hold a sentinel.
SentinelIsEmptyToMerge ==
    \A info \in ProbeUpdates :
        LET r == Merged(state, info)
        IN  ~r.raised =>
              \A f \in ScalarKeys :
                 /\ IsSentinel(Get(state, f)) =>
                        \A v \in CarriedFor(info, f) : r.st[f] = v
                 /\ IsRealValue(Get(state, f)) => ~IsSentinel(r.st[f])

\* a merge left the website at the sentinel, and a merge of a real website
\* into that record writes it
SentinelOverwrittenWitness ==
    /\ op = "_update_state_with_extracted_info"
    /\ state.sitio_web = NO_TIENE
    /\ Merged(state, <<E("sitio_web", "acme.mx")>>).st.sitio_web = "acme.mx"
    /\ IsRealValue(state.nombre)
    /\ Merged(state, <<E("nombre", NO_TIENE)>>).st.nombre = state.nombre

\* C34: a merge never changes a machinery type that is a member of the
\* enumeration, whatever type the update map carries.
ValidTipoNeverChanges ==
    [][state.tipo_maquinaria \in MaquinariaType =>
          state'.tipo_maquinaria = state.tipo_maquinaria]_vars

\* C34 for every update map: no map with another type changes the type of a
\* reachable record
ValidTipoKeptByEveryMerge ==
    state.tipo_maquinaria \in MaquinariaType =>
        \A t \in MaquinariaType \cup {"soldadoras", NO_ESPECIFICADO} :
            Merged(state, <<E("tipo_maquinaria", t)>>).st.tipo_maquinaria
                = state.tipo_maquinaria

\* a record of type soldadora with a welder detail has just been merged with
\* another valid type
SecondTipoMergedWitness ==
    /\ op = "_update_state_with_extracted_info"
    /\ extracted_info = <<E("tipo_maquinaria", "torre_iluminacion")>>
    /\ state.tipo_maquinaria = "soldadora"
    /\ state.detalles_maquinaria = DictVal(Items1("amperaje", "200A"))

\* update maps whose keys are not lead data: the JSON parser of the extraction
\* step returns whatever object the model wrote
ControlUpdates ==
    { <<E("completed", PyTrue)>>,
      <<E("completed", PyFalse)>>,
      <<E("asignado_asesor", "asesor-1")>>,
      <<E("hubspot_contact_id", "hs-1")>>,
      <<E("conversation_mode", "agente")>>,
      <<E("nombre", "Juan"), E("completed", PyTrue)>> }

\* C35: for every update map, the merge leaves the message log, the
\* conversation mode, the assigned-agent reference, the CRM-contact reference
\* and the completed flag of the record unchanged.
MergeWritesOnlyLeadData ==
    \A info \in ControlUpdates \cup ProbeUpdates :
        LET after == Merged(state, info).st
        IN  /\ after.messages = state.messages
            /\ after.conversation_mode = state.conversation_mode
            /\ after.asignado_asesor = state.asignado_asesor
            /\ after.hubspot_contact_id = state.hubspot_contact_id
            /\ after.completed = state.completed

\* C35, the part that holds: the message log and the conversation mode are
\* left alone
MergeKeepsLogAndMode ==
    \A info \in ControlUpdates \cup ProbeUpdates :
        LET after == Merged(state, info).st
        IN  /\ after.messages = state.messages
            /\ after.conversation_mode = state.conversation_mode

\* C36: the machinery-detail field of every reachable record is a map, and
\* merging an update whose machinery-detail value is not a map leaves the
\* detail field as it was.
DetallesAlwaysMap ==
    /\ state.detalles_maquinaria.isdict
    /\ \A v \in {"otro", NO_ESPECIFICADO} :
          Merged(state, <<E("detalles_maquinaria", NonDict(v))>>).st.detalles_maquinaria
              = state.detalles_maquinaria

-----------------------------------------------------------------------------
(* Further properties of the CRM sync                                       *)

\* C39: for the record of any session and any update map, update_contact
\* leaves every field of the record as it was, each sub-key of the
\* machinery-detail map included.
SyncLeavesRecord ==
    \A llm \in SyncAnswers, status \in UpdateStatuses :
        LET st1 == AddMessage(Load(store), "user", "hola")
            info == extract_all_information(llm).info
        IN  update_contact(st1, info, crm, HubSpotStatus(crm, status)).st = st1

\* C39, the part that holds: every field but the machinery-detail map is left
\* as it was
SyncLeavesOtherFields ==
    \A llm \in SyncAnswers, status \in UpdateStatuses :
        LET st1 == AddMessage(Load(store), "user", "hola")
            info == extract_all_information(llm).info
            after == update_contact(st1, info, crm, HubSpotStatus(crm, status)).st
        IN  [after EXCEPT !.detalles_maquinaria = st1.detalles_maquinaria] = st1

-----------------------------------------------------------------------------
(* The empty message                                                        *)

\* C40: on an empty or whitespace-only message send_message returns the
\* empty reply and changes nothing: the record is the loaded one, no update
\* map is produced, no extraction is run or fails, and nothing is saved.
BlankMessageChangesNothing ==
    \A m \in BlankMessages, llm \in LLMAnswers, inv \in BOOLEAN, gen \in BOOLEAN :
        LET loaded == Load(store)
            out == send_message(loaded, m, llm, inv, gen)
        IN  /\ out.reply = NoReply
            /\ out.st = loaded
            /\ ~out.saved
            /\ out.info = <<>>
            /\ ~out.failed /\ ~out.raised

\* a blank message arrived in bot mode after a turn that was answered: no
\* reply, and the stored record is the one of the turn before
BlankMessageWitness ==
    /\ op = "send_message" /\ reply = NoReply /\ ~raised
    /\ state.conversation_mode = "bot"
    /\ Len(state.messages) = 2
    /\ store = state
    /\ extracted_info = <<>>

-----------------------------------------------------------------------------
(* Turns over the Cosmos DB store when a read of the store can fail         *)

\* get_conversation_state with its except branch: a read that fails is
\* logged and None is returned
get_conversation_state_caught(d, read_ok) ==
    IF read_ok THEN get_conversation_state(d) ELSE NoState

\* save_conversation_state, whose first step is that same read: with None
\* for the old state the whole document is upserted
save_conversation_state_caught(d, st, read_ok) ==
    save_conversation_state(IF read_ok THEN d ELSE NoDoc, st)

\* the answers of the language model in these turns
ReadAnswers ==
    {[ok |-> TRUE, result |-> u] :
        u \in {<<>>, <<E("nombre", "Juan")>>, <<E("correo", "ana@acme.mx")>>,
               <<E("tipo_maquinaria", "soldadora")>>,
               <<Det(Items1("amperaje", "200A"))>>}}

\* send_message(user_message, user_id) over the Cosmos DB store
ReadTurn(llm, load_ok, save_ok) ==
    LET loaded == Load(get_conversation_state_caught(doc, load_ok))
        out == send_message(loaded, "hola", llm, FALSE, TRUE)
    IN  /\ DocLen + 2 <= MaxMessages
        /\ state' = out.st
        /\ doc' = IF out.saved
                  THEN save_conversation_state_caught(doc, out.st, save_ok)
                  ELSE doc
        /\ current_user_id' = RECIPIENT_WAID
        /\ raised' = out.raised
        /\ UNCHANGED <<sent, inbound, crm, units>>
        /\ Cosmos("send_message")

NextRead ==
    \E llm \in ReadAnswers, load_ok \in BOOLEAN, save_ok \in BOOLEAN :
        ReadTurn(llm, load_ok, save_ok)

SpecRead == Init /\ [][NextRead]_vars

\* the turns in which every read of the store succeeds
NextReadOk == \E llm \in ReadAnswers : ReadTurn(llm, TRUE, TRUE)

\* C38: whether or not a read of the store failed, the save of a turn keeps
\* every lead field of the stored record that holds a real value, and keeps
\* the stored message log as the beginning of the new one.
FailedReadKeepsRecord ==
    [][(op' = "send_message" /\ doc # NoDoc) =>
          /\ \A f \in ScalarKeys :
                IsRealValue(DocGet(doc, f)) => doc'.state[f] = doc.state[f]
          /\ IsPrefix(doc.messages, doc'.messages)]_vars

\* C38 where no read fails: the same holds of every turn
ReadRecordKept ==
    [][(NextReadOk /\ doc # NoDoc) =>
          /\ \A f \in ScalarKeys :
                IsRealValue(DocGet(doc, f)) => doc'.state[f] = doc.state[f]
          /\ IsPrefix(doc.messages, doc'.messages)]_vars

-----------------------------------------------------------------------------
(* Two message-processing units of one correspondent over the Cosmos DB     *)
(* store.  Each unit loads its working record, appends the lead's message   *)
(* to the document, answers on its own record and saves it.                 *)

\* the text of the message a unit handles, its WhatsApp id and its reply
UnitText(u) == IF u = 1 THEN "primero" ELSE "segundo"
UnitId(u) == IF u = 1 THEN "wamid.u1" ELSE "wamid.u2"
UnitReplyText(u) == IF u = 1 THEN "respuesta 1" ELSE "respuesta 2"

Other(u) == 3 - u

\* the longest log of the document in these runs
MaxUnitLog == 6

\* whatsapp_bot.chatbot.load_conversation(wa_id)
UnitLoad(u) ==
    /\ units[u].pc = "start"
    /\ DocLen + 2 <= MaxUnitLog
    /\ units' = [units EXCEPT ![u] =
                    [pc |-> "loaded",
                     st |-> Load(get_conversation_state(doc)),
                     alone |-> units[Other(u)].pc \in {"start", "done"}]]
    /\ raised' = FALSE
    /\ UNCHANGED <<state, doc, current_user_id, sent, inbound, crm>>
    /\ Cosmos("load_conversation")

\* self.state_store.add_single_message(wa_id, message_text, whatsapp_message_id, self.chatbot.state)
UnitAdd(u) ==
    LET added == add_single_message(doc, UnitText(u), UnitId(u), units[u].st)
    IN  /\ units[u].pc = "loaded"
        /\ doc' = added.doc
        /\ units' = [units EXCEPT ![u].pc = IF added.raised THEN "done" ELSE "added"]
        /\ raised' = added.raised
        /\ UNCHANGED <<state, current_user_id, sent, inbound, crm>>
        /\ Cosmos("add_single_message")

\* the turn of the chatbot on the unit's record: the lead's message and the
\* reply that is sent are appended to its log; in agent mode no reply is sent
UnitReply(u, replies) ==
    LET st1 == AddMessage(units[u].st, "user", UnitText(u))
    IN  /\ units[u].pc = "added"
        /\ units' = [units EXCEPT
                        ![u].pc = "replied",
                        ![u].st = IF replies
                                  THEN AddMessage(st1, "assistant", UnitReplyText(u))
                                  ELSE st1]
        /\ sent' = IF replies THEN <<UnitReplyText(u)>> ELSE <<>>
        /\ raised' = FALSE
        /\ UNCHANGED <<state, doc, current_user_id, inbound, crm>>
        /\ Cosmos("send_message")

\* save_conversation: state_store.save_conversation_state(user_id, self.state)
UnitSave(u) ==
    /\ units[u].pc = "replied"
    /\ doc' = save_conversation_state(doc, units[u].st)
    /\ units' = [units EXCEPT ![u].pc = "done"]
    /\ raised' = FALSE
    /\ UNCHANGED <<state, current_user_id, sent, inbound, crm>>
    /\ Cosmos("save_conversation_state")

\* an earlier exchange of the correspondent, before either unit starts
EarlierTurn ==
    /\ \A u \in Units : units[u].pc = "start"
    /\ ProcessMessage("hola", "wamid.1", "reply", 204)

NextUnits ==
    \/ \E u \in Units : UnitLoad(u)
    \/ \E u \in Units : UnitAdd(u)
    \/ \E u \in Units, replies \in BOOLEAN : UnitReply(u, replies)
    \/ \E u \in Units : UnitSave(u)
    \/ EarlierTurn

SpecUnits == Init /\ [][NextUnits]_vars

\* the document's log has an entry of this sender with this text
Persisted(sender, text) ==
    /\ doc # NoDoc
    /\ \E i \in DOMAIN doc.messages :
          doc.messages[i].sender = sender /\ doc.messages[i].text = text

\* the unit's own log holds the reply it sent
Replied(u) ==
    \E i \in DOMAIN units[u].st.messages :
        units[u].st.messages[i].content = UnitReplyText(u)

\* every entry the two units appended is in the document
UnitEntriesPersisted ==
    \A u \in Units :
        /\ Persisted("lead", UnitText(u))
        /\ Replied(u) => Persisted("bot", UnitReplyText(u))

UnitsDone == \A u \in Units : units[u].pc = "done"

\* each unit loaded while the other was not between its load and its save
UnitsSerial == \A u \in Units : units[u].alone

\* C37 as stated: however the steps of the two units interleave, every entry
\* appended by either is in the persisted log once both have finished.
InterleavedUnitsKeepEntries == UnitsDone => UnitEntriesPersisted

\* C37: when the two units run one after the other, every entry appended by
\* either is in the persisted log once both have finished.
SerialUnitsKeepEntries == (UnitsDone /\ UnitsSerial) => UnitEntriesPersisted

\* both units ran one after the other, each sent a reply, and the four
\* entries are in the document
SerialUnitsWitness ==
    /\ UnitsDone /\ UnitsSerial
    /\ \A u \in Units : Replied(u)
    /\ UnitEntriesPersisted
    /\ Len(doc.messages) = 6

====
